---------------------------- MODULE Spec2Model ----------------------------
(***************************************************************************)
(* A model of the partitioning, work-assignment and streaming storage core *)
(* of 3dbag-runner.  Each part of the program is a state machine of its    *)
(* own with its own specification:                                         *)
(*   SpecHeight    main.py height_database (streaming feature pipeline)    *)
(*   SpecUpload    AzureSchemeFileHandler.upload_folder                    *)
(*   SpecRegistry  SchemeFileHandler, the registry of file handles         *)
(*   SpecGrid      kadaster/geo.py, the grid partitioner                   *)
(*   SpecSplit     pointcloud/laz.py, the point cloud splitter             *)
(*   SpecManifest  argo/roofer.py, the work manifest and the workers       *)
(*   SpecNavigate  navigate of the two storage backends                    *)
(*   SpecStorage   listings, upload_file_direct, get_bytes of the backends *)
(*   SpecTile      main.py runsingleroofertile, sources and cleanup        *)
(*   SpecPsplit    main.py pointcloudsplit, the input files                *)
(*   SpecBagFair   kadaster/bag.py extract_by_year, with fair scheduling   *)
(*   SpecRetry     processing/__init__.py run_with_retries                 *)
(*   SpecLattice   the grid partitioner, then the splitter, on one area    *)
(***************************************************************************)
EXTENDS Integers, Sequences, FiniteSets, TLC

(***************************************************************************)
(* Bounds of the model.                                                    *)
(***************************************************************************)
\* largest number of entries folder.rglob("*") yields in upload_folder
MaxEntries == 3
\* largest consumer_count of upload_folder
MaxConsumers == 2
\* largest queue_size of upload_folder
MaxQueueSize == 2
\* number of distinct local files the disposal registry can hold handles for
NumLocalFiles == 2
\* largest number of handles ever registered with one SchemeFileHandler
MaxHandles == 2
\* number of threads calling delete_if_not_local, one call each
NumThreads == 2
\* footprint centroids have coordinates in 0..MaxCoord
MaxCoord == 3
\* largest number of footprints in the footprint file
MaxFeatures == 2
\* largest grid_size
MaxGridSize == 2
\* largest number of points in the input point cloud
MaxPoints == 3
\* x coordinates of points are in MinPointCoord..MaxPointCoord, y coordinates
\* in 0..MaxPointCoord
MinPointCoord == -1
MaxPointCoord == 1
\* largest grid_size of the splitter
MaxSplitGrid == 2
\* number of work units (grid cells) the partitioner yields
NumUnits == 3
\* largest workercount
MaxWorkers == 2
\* number of city.json input files listed by list_entries_shallow
NumFiles == 2
\* largest number of records the input files hold, all files together
MaxRecs == 5
\* longest path of a URI navigated from, in characters
MaxUriLen == 3
\* longest relative argument of navigate, in characters
MaxRelLen == 2
\* deepest nesting of directories in a store
MaxDirDepth == 2
\* largest number of files in a store before the call
MaxStored == 2
\* number of different contents of the uploaded file
NumContents == 2
\* largest number of point-cloud sources of runsingleroofertile
MaxSources == 2
\* largest number of tiles one source yields for an extent
MaxTiles == 2
\* number of input files of pointcloudsplit
NumLazFiles == 2
\* largest number of features the reader filters for the year
MaxBagFeatures == 4
\* largest max_attempts of run_with_retries
MaxAttempts == 2
\* batch_size of height_database, scaled down from 100000
BatchSize == 2

VARIABLES
    \* ---- height_database (src/src/main.py:373-445)
    fileRecs,      \* input: file -> number of records read_height_from_cityjson yields
    readerPc,      \* file -> position of its _reader future
    readerPos,     \* file -> number of records that _reader has put
    queue,         \* the multiprocessing.Queue, oldest item first
    producerPc,    \* position of producer_thread
    consumerPc,    \* position of consumer_thread
    batch,         \* _consumer's local list
    written,       \* records written to the sink by gpkg.writerecords, in order
    mainPc,        \* position of the caller's thread inside height_database
    uploaded,      \* whether upload_file_direct(temporary_db, destination) ran
    flushes,       \* the calls of gpkg.writerecords so far: [size, final] each
    \* ---- AzureSchemeFileHandler.upload_folder
    \*      (src/src/roofhelper/io/AzureSchemeFileHandler.py:261-317)
    folderIsDir,   \* input: folder.is_dir()
    recursive,     \* input: the parameter recursive
    path_prefix,   \* input: the path of uri below the container, as path segments
    folderEntries, \* input: the entries below the folder, [kind, depth] each
    consumer_count, \* input: the parameter consumer_count
    queue_size,    \* input: the parameter queue_size
    task_queue,    \* Queue(maxsize=queue_size), oldest item first
    walkPos,       \* _producer: entries of the iterator consumed so far
    sentinelsPut,  \* _producer: sentinels put so far
    joinIdx,       \* the consumer thread the caller joins next
    upMainPc,      \* position of the caller's thread inside upload_folder
    upConsumerPc,  \* consumer thread -> its position
    upHolding,     \* consumer thread -> the task it is uploading (None if none)
    blobs,         \* entry -> number of completed upload_blob calls for it
    \* ---- SchemeFileHandler, the disposal registry
    \*      (src/src/roofhelper/io/SchemeFileHandler.py:16-104)
    file_handles,  \* self.file_handles: the registered FileHandle objects, in order
    disk,          \* the files that exist on the local disk
    registered,    \* the number of FileHandle objects created so far
    lockOwner,     \* the thread holding self._lock (NoThread if free)
    delPc,         \* thread -> its position inside delete_if_not_local
    delArg,        \* thread -> the argument path of its call
    to_remove,     \* thread -> the rest of its local list to_remove
    resolvedMatch, \* thread -> the handles that resolved to the argument's file
                   \*           when its call read the registry (history)
    unlinkCalls,   \* file -> number of os.unlink calls made for it
    \* ---- grid_create_on_intersecting_centroid (src/src/roofhelper/kadaster/geo.py)
    features,      \* input: centroid <<x, y>> -> half width of the footprint
    grid_size,     \* input: the parameter grid_size
    results,       \* what pool.map(_process_cell, tasks) returned (None before)
    yielded,       \* the cells the generator has yielded so far
    gridPos,       \* _generate_cells: results consumed by "for result in results"
    gridPc,        \* position inside grid_create_on_intersecting_centroid
    source_readable,  \* input: whether fiona.open and gpd.read_file can read the file
    cell_raises,   \* input: whether _process_cell raises for one of the cells
    queue_json,    \* /workflow/queue.json of the queuefunc that consumes the grid
    \* ---- laz_tile_split (src/src/roofhelper/pointcloud/laz.py)
    points,          \* input: the points of input_laz, in file order, <<x, y>>
    split_grid_size, \* input: the parameter grid_size
    chunksRead,      \* chunks taken from pointcloud.chunk_iterator so far
    generated_tiles, \* the keys (tx, ty) of the dict generated_tiles
    tile_files,      \* output_dir: <<start_x, start_y>> of the name -> points in the file
    splitPc,         \* position inside _process_laz_file and laz_tile_split
    uploadedTiles,   \* pointcloudsplit: the <<x_coord, y_coord>> of the uploaded tiles
    failedTiles,     \* pointcloudsplit: the tile names whose upload logged an error
    opened_w,        \* tile path -> how often laz_tile_split opened it with mode="w"
    \* ---- the roofer workflow (src/src/argo/roofer.py)
    workercount,     \* input: the workflow parameter workercount
    existsAtStart,   \* input: the units whose destination existed before the first run
    exists,          \* the units whose destination exists in the cityjsonfolder
    run,             \* which run of the workflow this is
    wfPc,            \* position of the workflow: "queue", "workers", "finished"
    global_queue,    \* /workflow/queue.json: sequence of [worker, unit]
    workerPc,        \* worker id -> position inside workerfunc
    attempts,        \* worker id -> retries the orchestrator has made of workerfunc
    resultPos,       \* worker id -> futures passed by "for future in futures"
    taskState,       \* unit -> state of the future of its process_task
    uploadedInRun,   \* run -> the units whose task uploaded its output in that run
    roofer_calls,    \* the calls of runsingleroofertile in this run: [unit, existed]
    \* ---- navigate (src/src/roofhelper/io/FileSchemeFileHandler.py:138-153,
    \*      src/src/roofhelper/io/AzureSchemeFileHandler.py:234-248)
    navUri,          \* input: the URI navigated from, as the text of its path
    navA,            \* input: a relative argument of navigate
    navB,            \* input: a second relative argument of navigate
    navOut,          \* the results of the navigate calls
    navPc,           \* "call" before the calls, then the backend that made them
    \* ---- listings, upload_file_direct and get_bytes of the two backends
    \*      (src/src/roofhelper/io/FileSchemeFileHandler.py:31-130,
    \*       src/src/roofhelper/io/AzureSchemeFileHandler.py:129-232)
    store,           \* the files (blobs) that exist: location -> content
    stUri,           \* input: the location the URI of the call designates
    stSlash,         \* input: whether the URI ends in "/"
    stSource,        \* input: the content of the local file that is uploaded
    stOut,           \* what the last call yielded, returned or raised
    stPc,            \* "call" before the call, then the call that was made
    \* ---- runsingleroofertile (src/src/main.py:119-227)
    all_pointclouds,     \* input: the point-cloud sources, in priority order
    footprints_remote,   \* input: whether the footprints URI is remote
    tileHandles,         \* file_handler.file_handles
    tileDisk,            \* the temporary files of the handler that are on disk
    sourcePos,           \* sources passed by "for pointcloud in all_pointclouds"
    pointclouds_to_use,  \* the sources of the configuration, by position
    tilePc,              \* position inside runsingleroofertile
    cleanupPos,          \* position of the iterator of the cleanup loop
    \* ---- pointcloudsplit (src/src/main.py:296-362)
    lazFault,        \* input: file -> what fails while the file is processed
    lazPc,           \* file -> position of its _process_laz_file future
    lazLogged,       \* the files for which log.error was called
    lazUploaded,     \* the files whose tiles were all uploaded
    lazCollected,    \* the futures whose result pointcloudsplit has taken
    psplitPc,        \* position of pointcloudsplit
    \* ---- extract_by_year (src/src/roofhelper/kadaster/bag.py:57-86, 162-190)
    bagFeatures,     \* input: number of features _bag_filtered_by_year yields
    bagRaiseAt,      \* input: features put when the reader raises
    feature_queue,   \* the multiprocessing.Queue between reader and writer
    bagReaderPc,     \* position of worker_process
    bagReaderPos,    \* features the reader has put
    bagPc,           \* position of extract_by_year
    bagBatch,        \* len(batch)
    bagWritten,      \* records written to the target
    \* ---- run_with_retries (src/src/roofhelper/processing/__init__.py:19-43)
    max_attempts,    \* input: the parameter max_attempts
    cmd_outcomes,    \* input: attempt -> how subprocess.run ends
    caller_handling, \* input: whether the caller is inside an except block
    attempt,         \* number of subprocess.run calls made
    retryPc,         \* "loop", "returned" or "raised"
    raised_exc       \* the exception that left run_with_retries

heightVars == <<fileRecs, readerPc, readerPos, queue, producerPc, consumerPc,
                batch, written, mainPc, uploaded, flushes>>

uploadVars == <<folderIsDir, recursive, path_prefix, folderEntries,
                consumer_count, queue_size, task_queue,
                walkPos, sentinelsPut, joinIdx, upMainPc, upConsumerPc, upHolding,
                blobs>>

registryVars == <<file_handles, disk, registered, lockOwner, delPc, delArg, to_remove,
                  resolvedMatch, unlinkCalls>>

gridVars == <<features, grid_size, results, yielded, gridPos, gridPc,
              source_readable, cell_raises, queue_json>>

splitVars == <<points, split_grid_size, chunksRead, generated_tiles, tile_files, splitPc,
               uploadedTiles, failedTiles, opened_w>>

navigateVars == <<navUri, navA, navB, navOut, navPc>>

storageVars == <<store, stUri, stSlash, stSource, stOut, stPc>>

manifestVars == <<workercount, existsAtStart, exists, run, wfPc, global_queue,
                  workerPc, attempts, resultPos, taskState, uploadedInRun,
                  roofer_calls>>

tileVars == <<all_pointclouds, footprints_remote, tileHandles, tileDisk, sourcePos,
              pointclouds_to_use, tilePc, cleanupPos>>

psplitVars == <<lazFault, lazPc, lazLogged, lazUploaded, lazCollected, psplitPc>>

bagVars == <<bagFeatures, bagRaiseAt, feature_queue, bagReaderPc, bagReaderPos, bagPc,
             bagBatch, bagWritten>>

retryVars == <<max_attempts, cmd_outcomes, caller_handling, attempt, retryPc, raised_exc>>

vars == <<heightVars, uploadVars, registryVars, gridVars, splitVars,
          manifestVars, navigateVars, storageVars, tileVars, psplitVars,
          bagVars, retryVars>>

\* what a step of one part leaves alone: the variables of the other parts
HeightFrame ==
    UNCHANGED <<uploadVars, registryVars, gridVars, splitVars, manifestVars,
                navigateVars, storageVars, tileVars, psplitVars, bagVars,
                retryVars>>
UploadFrame ==
    UNCHANGED <<heightVars, registryVars, gridVars, splitVars, manifestVars,
                navigateVars, storageVars, tileVars, psplitVars, bagVars,
                retryVars>>
RegistryFrame ==
    UNCHANGED <<heightVars, uploadVars, gridVars, splitVars, manifestVars,
                navigateVars, storageVars, tileVars, psplitVars, bagVars,
                retryVars>>
GridFrame ==
    UNCHANGED <<heightVars, uploadVars, registryVars, splitVars,
                manifestVars, navigateVars, storageVars, tileVars,
                psplitVars, bagVars, retryVars>>
SplitFrame ==
    UNCHANGED <<heightVars, uploadVars, registryVars, gridVars, manifestVars,
                navigateVars, storageVars, tileVars, psplitVars, bagVars,
                retryVars>>
ManifestFrame ==
    UNCHANGED <<heightVars, uploadVars, registryVars, gridVars, splitVars,
                navigateVars, storageVars, tileVars, psplitVars, bagVars,
                retryVars>>
NavigateFrame ==
    UNCHANGED <<heightVars, uploadVars, registryVars, gridVars, splitVars,
                manifestVars, storageVars, tileVars, psplitVars, bagVars,
                retryVars>>
StorageFrame ==
    UNCHANGED <<heightVars, uploadVars, registryVars, gridVars, splitVars,
                manifestVars, navigateVars, tileVars, psplitVars, bagVars,
                retryVars>>
TileFrame ==
    UNCHANGED <<heightVars, uploadVars, registryVars, gridVars, splitVars,
                manifestVars, navigateVars, storageVars, psplitVars, bagVars,
                retryVars>>
PsplitFrame ==
    UNCHANGED <<heightVars, uploadVars, registryVars, gridVars, splitVars,
                manifestVars, navigateVars, storageVars, tileVars, bagVars,
                retryVars>>
BagFrame ==
    UNCHANGED <<heightVars, uploadVars, registryVars, gridVars, splitVars,
                manifestVars, navigateVars, storageVars, tileVars,
                psplitVars, retryVars>>
RetryFrame ==
    UNCHANGED <<heightVars, uploadVars, registryVars, gridVars, splitVars,
                manifestVars, navigateVars, storageVars, tileVars,
                psplitVars, bagVars>>

(***************************************************************************)
(* height_database: the streaming feature pipeline.                        *)
(***************************************************************************)
Files == 1..NumFiles

\* queue = multiprocessing.Queue(maxsize=batch_size * 2)
QueueMaxSize == BatchSize * 2

\* the sentinel put by _producer; records are <<file, index>> with file >= 1
None == <<0, 0>>

Record(f, i) == <<f, i>>

\* every record the input files hold
AllRecords == {Record(f, i) : f \in Files, i \in 1..MaxRecs}

RECURSIVE SeqToSet(_)
SeqToSet(s) == IF s = <<>> THEN {} ELSE {Head(s)} \cup SeqToSet(Tail(s))

\* the state when height_database is entered, but for its input
HeightEntry ==
    /\ readerPc = [f \in Files |-> "unsubmitted"]
    /\ readerPos = [f \in Files |-> 0]
    /\ queue = <<>>
    /\ producerPc = "unstarted"
    /\ consumerPc = "unstarted"
    /\ batch = <<>>
    /\ written = <<>>
    /\ mainPc = "start"
    /\ uploaded = FALSE
    /\ flushes = <<>>

RECURSIVE TotalRecs(_, _)
\* the number of records in the files f..NumFiles
TotalRecs(recs, f) ==
    IF f > NumFiles THEN 0 ELSE recs[f] + TotalRecs(recs, f + 1)

\* the inputs: what each listed file holds, at most MaxRecs records in all
HeightInit ==
    /\ fileRecs \in {recs \in [Files -> 0..MaxRecs] : TotalRecs(recs, 1) <= MaxRecs}
    /\ HeightEntry

\* height_database not in use: no input files
HeightIdle ==
    /\ fileRecs = [f \in Files |-> 0]
    /\ HeightEntry

\* producer_thread.start(); consumer_thread.start()
StartThreads ==
    /\ mainPc = "start"
    /\ mainPc' = "join_producer"
    /\ producerPc' = "submit"
    /\ consumerPc' = "get"
    /\ UNCHANGED <<fileRecs, readerPc, readerPos, queue, batch, written, uploaded>>
    /\ UNCHANGED flushes
    /\ HeightFrame

\* _producer: executor.submit(_reader, entry.full_uri) for every listed file
ProducerSubmit ==
    /\ producerPc = "submit"
    /\ readerPc' = [f \in Files |-> "reading"]
    /\ producerPc' = "as_completed"
    /\ UNCHANGED <<fileRecs, readerPos, queue, consumerPc, batch, written, mainPc, uploaded>>
    /\ UNCHANGED flushes
    /\ HeightFrame

\* queue.put blocks while the queue holds maxsize items
QueueNeverFull == FALSE
QueueFull == Len(queue) >= QueueMaxSize

\* _reader: queue.put(...) of the next building; blocks while the queue is full
ReaderPut(f) ==
    /\ readerPc[f] = "reading"
    /\ readerPos[f] < fileRecs[f]
    /\ ~QueueFull
    /\ queue' = Append(queue, Record(f, readerPos[f] + 1))
    /\ readerPos' = [readerPos EXCEPT ![f] = @ + 1]
    /\ UNCHANGED <<fileRecs, readerPc, producerPc, consumerPc, batch, written, mainPc, uploaded>>
    /\ UNCHANGED flushes
    /\ HeightFrame

\* _reader: the generator is exhausted; delete_if_not_local, return
ReaderDone(f) ==
    /\ readerPc[f] = "reading"
    /\ readerPos[f] = fileRecs[f]
    /\ readerPc' = [readerPc EXCEPT ![f] = "done"]
    /\ UNCHANGED <<fileRecs, readerPos, queue, producerPc, consumerPc, batch, written, mainPc, uploaded>>
    /\ UNCHANGED flushes
    /\ HeightFrame

\* _reader: download_file or read_height_from_cityjson raises; logged, re-raised
ReaderRaise(f) ==
    /\ readerPc[f] = "reading"
    /\ readerPc' = [readerPc EXCEPT ![f] = "raised"]
    /\ UNCHANGED <<fileRecs, readerPos, queue, producerPc, consumerPc, batch, written, mainPc, uploaded>>
    /\ UNCHANGED flushes
    /\ HeightFrame

ReadersFinished == \A f \in Files : readerPc[f] \in {"done", "raised"}
AnyReaderRaised == \E f \in Files : readerPc[f] = "raised"

\* _producer: future.result() over as_completed and the executor's __exit__
\* (shutdown(wait=True)): left when every reader has ended; a reader's
\* exception is re-raised by future.result() and ends the thread before
\* queue.put(None)
ProducerLeaveExecutor ==
    /\ producerPc = "as_completed"
    /\ ReadersFinished
    /\ producerPc' = IF AnyReaderRaised THEN "raised" ELSE "put_none"
    /\ UNCHANGED <<fileRecs, readerPc, readerPos, queue, consumerPc, batch, written, mainPc, uploaded>>
    /\ UNCHANGED flushes
    /\ HeightFrame

\* _producer: queue.put(None)
ProducerPutNone ==
    /\ producerPc = "put_none"
    /\ ~QueueFull
    /\ queue' = Append(queue, None)
    /\ producerPc' = "done"
    /\ UNCHANGED <<fileRecs, readerPc, readerPos, consumerPc, batch, written, mainPc, uploaded>>
    /\ UNCHANGED flushes
    /\ HeightFrame

\* the flush condition of _consumer
FlushEveryItem(b) == TRUE
BatchFull(b) == (Len(b) % BatchSize) = 0

\* _consumer: item = queue.get(); break on None; else append and, when the
\* batch is full, gpkg.writerecords(batch) (which may raise) and batch.clear()
ConsumerGet ==
    /\ consumerPc = "get"
    /\ queue # <<>>
    /\ queue' = Tail(queue)
    /\ IF Head(queue) = None
       THEN /\ consumerPc' = "final"
            /\ UNCHANGED <<batch, written, flushes>>
       ELSE LET b == Append(batch, Head(queue)) IN
            IF BatchFull(b)
            THEN /\ flushes' = Append(flushes, [size |-> Len(b), final |-> FALSE])
                 /\ \E ok \in BOOLEAN :
                      IF ok
                      THEN /\ written' = written \o b
                           /\ batch' = <<>>
                           /\ consumerPc' = "get"
                      ELSE /\ consumerPc' = "raised"
                           /\ batch' = b
                           /\ UNCHANGED written
            ELSE /\ batch' = b
                 /\ UNCHANGED <<consumerPc, written, flushes>>
    /\ UNCHANGED <<fileRecs, readerPc, readerPos, producerPc, mainPc, uploaded>>
    /\ HeightFrame

\* the condition of the flush after the loop: if len(batch) > 0
NoRemainder(b) == FALSE
HasRemainder(b) == Len(b) > 0

\* _consumer after the loop: the final flush of a non-empty batch
ConsumerFinal ==
    /\ consumerPc = "final"
    /\ IF HasRemainder(batch)
       THEN /\ flushes' = Append(flushes, [size |-> Len(batch), final |-> TRUE])
            /\ \E ok \in BOOLEAN :
                 IF ok
                 THEN /\ written' = written \o batch
                      /\ consumerPc' = "done"
                 ELSE /\ consumerPc' = "raised"
                      /\ UNCHANGED written
       ELSE /\ consumerPc' = "done"
            /\ UNCHANGED <<written, flushes>>
    /\ UNCHANGED <<fileRecs, readerPc, readerPos, queue, producerPc, batch, mainPc, uploaded>>
    /\ HeightFrame

\* producer_thread.join(): returns when the thread has ended, however it ended
JoinProducer ==
    /\ mainPc = "join_producer"
    /\ producerPc \in {"done", "raised"}
    /\ mainPc' = "join_consumer"
    /\ UNCHANGED <<fileRecs, readerPc, readerPos, queue, producerPc, consumerPc, batch, written, uploaded>>
    /\ UNCHANGED flushes
    /\ HeightFrame

\* consumer_thread.join()
JoinConsumer ==
    /\ mainPc = "join_consumer"
    /\ consumerPc \in {"done", "raised"}
    /\ mainPc' = "upload"
    /\ UNCHANGED <<fileRecs, readerPc, readerPos, queue, producerPc, consumerPc, batch, written, uploaded>>
    /\ UNCHANGED flushes
    /\ HeightFrame

\* scheme_handler.upload_file_direct(temporary_db, destination), which may raise
UploadDatabase ==
    /\ mainPc = "upload"
    /\ \E ok \in BOOLEAN :
         IF ok
         THEN /\ uploaded' = TRUE
              /\ mainPc' = "returned"
         ELSE /\ mainPc' = "raised"
              /\ UNCHANGED uploaded
    /\ UNCHANGED <<fileRecs, readerPc, readerPos, queue, producerPc, consumerPc, batch, written>>
    /\ UNCHANGED flushes
    /\ HeightFrame

HeightNext ==
    \/ StartThreads
    \/ ProducerSubmit
    \/ \E f \in Files : ReaderPut(f)
    \/ \E f \in Files : ReaderDone(f)
    \/ \E f \in Files : ReaderRaise(f)
    \/ ProducerLeaveExecutor
    \/ ProducerPutNone
    \/ ConsumerGet
    \/ ConsumerFinal
    \/ JoinProducer
    \/ JoinConsumer
    \/ UploadDatabase


\* the records the input files yield
InputRecords == {Record(f, i) : f \in Files, i \in 1..MaxRecs} \cap
                {r \in AllRecords : r[2] <= fileRecs[r[1]]}

HeightEnded == mainPc \in {"returned", "raised"}

\* C1: if any producer (_reader) raises, the call of height_database ends by
\* raising once the threads are joined: it does not return normally and it
\* does not stay blocked (whenever a reader has raised and the call has not
\* yet ended by raising, some thread can still take a step).
C1_ReaderFailurePropagates ==
    AnyReaderRaised =>
        /\ mainPc # "returned"
        /\ (mainPc = "raised" \/ ENABLED HeightNext)

\* C10: the database is uploaded only when every record of every input file
\* has been written to the sink; after a failure of a producer or of the
\* consumer no upload takes place.
C10_NoPartialCommit ==
    uploaded =>
        /\ \A f \in Files : readerPc[f] = "done"
        /\ consumerPc = "done"
        /\ SeqToSet(written) = InputRecords

\* the records pushed so far by all producers
PushedRecords == {r \in AllRecords : r[2] <= readerPos[r[1]]}

\* the sequence holds every element of the set once and nothing else
WrittenOnce(seq, S) ==
    /\ Len(seq) = Cardinality(S)
    /\ SeqToSet(seq) = S

SentinelEnqueued == producerPc = "done"

\* C14: the sentinel is enqueued exactly once, when the producer thread has
\* ended, and only after every producer (_reader) has finished; no record is
\* behind the sentinel in the queue, and a consumer that has left its loop
\* has dequeued every record.
C14_SentinelOnceAfterProducers ==
    /\ producerPc \in {"done", "raised"} => SentinelEnqueued
    /\ SentinelEnqueued => ReadersFinished
    /\ \A i \in 1..Len(queue) : queue[i] = None => i = Len(queue)
    /\ consumerPc \in {"final", "done"} => queue = <<>>

\* a producer is blocked in queue.put: it has a record to put and the queue is full
BlockedReader(f) ==
    /\ readerPc[f] = "reading"
    /\ readerPos[f] < fileRecs[f]
    /\ QueueFull

\* C15: backpressure: the queue never holds more than 2 x batchSize items,
\* and a producer with a record to put cannot put it while the queue is full:
\* its put is enabled again only by a dequeue of the consumer.
C15_QueueBounded ==
    /\ Len(queue) <= 2 * BatchSize
    /\ \A f \in Files : BlockedReader(f) => ~ENABLED ReaderPut(f)

C15_Witness ==
    /\ \E f \in Files : BlockedReader(f)
    /\ consumerPc = "get"
    /\ Len(queue) = 2 * BatchSize

\* the flushes made inside the loop, before the sentinel, and after it
LoopFlushes == {i \in 1..Len(flushes) : ~flushes[i].final}
FinalFlushes == {i \in 1..Len(flushes) : flushes[i].final}

\* C16: the consumer flushes exactly when its batch reaches batchSize: every
\* flush before the sentinel writes exactly batchSize records and the batch
\* it keeps is always shorter than batchSize; after the sentinel there is one
\* final flush if and only if a non-empty remainder is left, and it writes
\* fewer than batchSize records.
C16_FlushAtBatchSize ==
    /\ \A i \in LoopFlushes : flushes[i].size = BatchSize
    /\ consumerPc = "get" => Len(batch) < BatchSize
    /\ \A i \in FinalFlushes :
          /\ i = Len(flushes)
          /\ flushes[i].size > 0
          /\ flushes[i].size < BatchSize
          /\ consumerPc \in {"done", "raised"}
    /\ consumerPc = "done" =>
          (FinalFlushes # {}) = (Len(written) % BatchSize # 0)
    /\ Cardinality(FinalFlushes) <= 1

C16_Witness ==
    /\ consumerPc = "done"
    /\ Cardinality(LoopFlushes) = 2
    /\ Cardinality(FinalFlushes) = 1


(***************************************************************************)
(* AzureSchemeFileHandler.upload_folder: the bulk folder upload.           *)
(***************************************************************************)
Consumers == 1..MaxConsumers
Entries == 1..MaxEntries

\* the kinds of entry an iterator over the folder yields
EntryKinds == {"file", "dir"}

\* an entry is directly in the folder or in a subfolder of it
Depths == {1, 2}

\* the name of the subfolder and of the folder the uri names
DirName == 0

\* the folder contents, in the order rglob yields them: every sequence of
\* at most MaxEntries entries; the entry at position i is named i
FolderContents ==
    UNION {[1..n -> [kind : EntryKinds, depth : Depths]] : n \in 0..MaxEntries}

\* the path prefixes _parse_azure_uri can return: none, or one folder
PathPrefixes == {<<>>, <<DirName>>}

RECURSIVE Positions(_, _)
\* the positions from i on of the entries the iterator yields:
\* folder.rglob("*") if recursive else folder.glob("*")
Positions(entries, i) ==
    IF i > Len(entries) THEN <<>>
    ELSE IF recursive \/ entries[i].depth = 1
         THEN <<i>> \o Positions(entries, i + 1)
         ELSE Positions(entries, i + 1)

iterator == Positions(folderEntries, 1)

\* local_path.is_file()
IsFileAlways(i) == TRUE
IsFile(i) == folderEntries[i].kind = "file"

\* local_path.relative_to(folder).as_posix(), as path segments
RelPath(i) ==
    IF folderEntries[i].depth = 2 THEN <<DirName, i>> ELSE <<i>>

\* the tuple (local_path, rel_path) put for the entry at position i
Task(i) == <<i, RelPath(i)>>

\* blob_path: f"{path_prefix}/{rel_path}" if path_prefix else rel_path
BlobPath(prefix, rel_path) ==
    IF prefix # <<>> THEN prefix \o rel_path ELSE rel_path

\* the blob names an upload can write
BlobPaths ==
    {<<i>> : i \in Entries} \cup {<<DirName, i>> : i \in Entries}
        \cup {<<DirName, DirName, i>> : i \in Entries}

\* the state when upload_folder is entered, but for its inputs
UploadEntry ==
    /\ task_queue = <<>>
    /\ walkPos = 0
    /\ sentinelsPut = 0
    /\ joinIdx = 1
    /\ upMainPc = "check"
    /\ upConsumerPc = [c \in Consumers |-> "unstarted"]
    /\ upHolding = [c \in Consumers |-> None]
    /\ blobs = [b \in BlobPaths |-> 0]

UploadInit ==
    /\ folderIsDir \in BOOLEAN
    /\ recursive \in BOOLEAN
    /\ path_prefix \in PathPrefixes
    /\ folderEntries \in FolderContents
    /\ consumer_count \in 1..MaxConsumers
    /\ queue_size \in 1..MaxQueueSize
    /\ UploadEntry

\* upload_folder not in use: an empty folder
UploadIdle ==
    /\ folderIsDir = TRUE
    /\ recursive = TRUE
    /\ path_prefix = <<>>
    /\ folderEntries = <<>>
    /\ consumer_count = 1
    /\ queue_size = 1
    /\ UploadEntry

\* if not folder.is_dir(): raise ValueError
UploadNotADirectory ==
    /\ upMainPc = "check"
    /\ ~folderIsDir
    /\ upMainPc' = "raised"
    /\ UNCHANGED <<folderIsDir, recursive, path_prefix, folderEntries,
                   consumer_count, queue_size, task_queue,
                   walkPos, sentinelsPut, joinIdx, upConsumerPc, upHolding, blobs>>
    /\ UploadFrame

\* for t in _consumer_threads: t.start(); then _producer() is entered
UploadStartConsumers ==
    /\ upMainPc = "check"
    /\ folderIsDir
    /\ upConsumerPc' = [c \in Consumers |-> IF c <= consumer_count THEN "get" ELSE "unstarted"]
    /\ upMainPc' = "producer"
    /\ UNCHANGED <<folderIsDir, recursive, path_prefix, folderEntries,
                   consumer_count, queue_size, task_queue,
                   walkPos, sentinelsPut, joinIdx, upHolding, blobs>>
    /\ UploadFrame

\* _producer: if not local_path.is_file(): continue
UploadSkipEntry ==
    /\ upMainPc = "producer"
    /\ walkPos < Len(iterator)
    /\ ~IsFile(iterator[walkPos + 1])
    /\ walkPos' = walkPos + 1
    /\ UNCHANGED <<folderIsDir, recursive, path_prefix, folderEntries,
                   consumer_count, queue_size, task_queue,
                   sentinelsPut, joinIdx, upMainPc, upConsumerPc, upHolding, blobs>>
    /\ UploadFrame

\* _producer: task_queue.put((local_path, rel_path)); blocks while the queue is full
UploadPutTask ==
    /\ upMainPc = "producer"
    /\ walkPos < Len(iterator)
    /\ IsFile(iterator[walkPos + 1])
    /\ Len(task_queue) < queue_size
    /\ task_queue' = Append(task_queue, Task(iterator[walkPos + 1]))
    /\ walkPos' = walkPos + 1
    /\ UNCHANGED <<folderIsDir, recursive, path_prefix, folderEntries,
                   consumer_count, queue_size,
                   sentinelsPut, joinIdx, upMainPc, upConsumerPc, upHolding, blobs>>
    /\ UploadFrame

\* _producer: for _ in range(consumer_count): task_queue.put(None); after
\* the last one _producer returns and the caller starts joining
UploadPutSentinel ==
    /\ upMainPc = "producer"
    /\ walkPos = Len(iterator)
    /\ sentinelsPut < consumer_count
    /\ Len(task_queue) < queue_size
    /\ task_queue' = Append(task_queue, None)
    /\ sentinelsPut' = sentinelsPut + 1
    /\ upMainPc' = IF sentinelsPut + 1 = consumer_count THEN "join" ELSE "producer"
    /\ UNCHANGED <<folderIsDir, recursive, path_prefix, folderEntries,
                   consumer_count, queue_size,
                   walkPos, joinIdx, upConsumerPc, upHolding, blobs>>
    /\ UploadFrame

\* _consumer: item = task_queue.get(timeout=0.5); a timeout on an empty queue
\* retries and changes nothing; None ends the thread
UploadConsumerGet(c) ==
    /\ upConsumerPc[c] = "get"
    /\ task_queue # <<>>
    /\ task_queue' = Tail(task_queue)
    /\ IF Head(task_queue) = None
       THEN /\ upConsumerPc' = [upConsumerPc EXCEPT ![c] = "exited"]
            /\ UNCHANGED upHolding
       ELSE /\ upConsumerPc' = [upConsumerPc EXCEPT ![c] = "upload"]
            /\ upHolding' = [upHolding EXCEPT ![c] = Head(task_queue)]
    /\ UNCHANGED <<folderIsDir, recursive, path_prefix, folderEntries,
                   consumer_count, queue_size,
                   walkPos, sentinelsPut, joinIdx, upMainPc, blobs>>
    /\ UploadFrame

\* _consumer: open(local_path) and blob_client.upload_blob(data, overwrite=True);
\* an exception is not caught inside _consumer and ends the thread
UploadConsumerUpload(c) ==
    /\ upConsumerPc[c] = "upload"
    /\ \E ok \in BOOLEAN :
         IF ok
         THEN /\ blobs' = [blobs EXCEPT ![BlobPath(path_prefix, upHolding[c][2])] = @ + 1]
              /\ upConsumerPc' = [upConsumerPc EXCEPT ![c] = "get"]
         ELSE /\ upConsumerPc' = [upConsumerPc EXCEPT ![c] = "raised"]
              /\ UNCHANGED blobs
    /\ upHolding' = [upHolding EXCEPT ![c] = None]
    /\ UNCHANGED <<folderIsDir, recursive, path_prefix, folderEntries,
                   consumer_count, queue_size, task_queue,
                   walkPos, sentinelsPut, joinIdx, upMainPc>>
    /\ UploadFrame

\* for t in _consumer_threads: t.join(); returns after the last join
UploadJoin ==
    /\ upMainPc = "join"
    /\ upConsumerPc[joinIdx] \in {"exited", "raised"}
    /\ joinIdx' = joinIdx + 1
    /\ upMainPc' = IF joinIdx = consumer_count THEN "returned" ELSE "join"
    /\ UNCHANGED <<folderIsDir, recursive, path_prefix, folderEntries,
                   consumer_count, queue_size, task_queue,
                   walkPos, sentinelsPut, upConsumerPc, upHolding, blobs>>
    /\ UploadFrame

UploadNext ==
    \/ UploadNotADirectory
    \/ UploadStartConsumers
    \/ UploadSkipEntry
    \/ UploadPutTask
    \/ UploadPutSentinel
    \/ \E c \in Consumers : UploadConsumerGet(c)
    \/ \E c \in Consumers : UploadConsumerUpload(c)
    \/ UploadJoin

UploadEnded == upMainPc \in {"returned", "raised"}

\* C2: no execution of upload_folder blocks indefinitely, also when an upload
\* raises inside a consumer thread: as long as the call has neither returned
\* nor raised, some thread of it can take a step.
C2_UploadFolderNeverBlocks == UploadEnded \/ ENABLED UploadNext

\* the consumer threads that were started
Started == 1..consumer_count

\* an upload raised inside a consumer thread
AnyUploadFailed == \E c \in Started : upConsumerPc[c] = "raised"

\* C11: a failed upload is surfaced: when the upload of a file has raised
\* inside a consumer thread, upload_folder does not return normally.
C11_UploadFailureSurfaces ==
    AnyUploadFailed => upMainPc # "returned"

\* the positions of the queue that hold a sentinel
SentinelPositions == {i \in 1..Len(task_queue) : task_queue[i] = None}

\* C12: the sentinel protocol: sentinels are enqueued only after the last
\* file task (none precedes a task in the queue, none is put while the walk
\* is unfinished), never more than one per consumer thread, and when
\* upload_folder has returned exactly consumer_count sentinels were put and
\* every consumer thread has terminated by dequeuing a sentinel of its own.
C12_SentinelPerConsumer ==
    /\ \A i \in SentinelPositions : \A j \in i..Len(task_queue) : j \in SentinelPositions
    /\ sentinelsPut > 0 => walkPos = Len(iterator)
    /\ sentinelsPut <= consumer_count
    /\ upMainPc = "returned" =>
          /\ sentinelsPut = consumer_count
          /\ \A c \in Started : upConsumerPc[c] = "exited"
          /\ task_queue = <<>>

\* the file entries of the folder, at any depth
FileEntries == {i \in 1..Len(folderEntries) : folderEntries[i].kind = "file"}

\* the tasks that are in the queue or held by a consumer thread
TasksInFlight ==
    {task_queue[i] : i \in 1..Len(task_queue)} \cup {upHolding[c] : c \in Consumers}

\* C17: a recursive upload_folder in which no upload fails: when the call has
\* returned every regular file at any depth was uploaded exactly once, to the
\* path of the uri followed by its path relative to the folder, and nothing
\* else was uploaded; a directory is never enqueued.
C17_EveryFileUploadedOnce ==
    /\ \A t \in TasksInFlight \ {None} : folderEntries[t[1]].kind = "file"
    /\ (upMainPc = "returned" /\ recursive /\ ~AnyUploadFailed) =>
          \A b \in BlobPaths :
              blobs[b] = Cardinality({i \in FileEntries : path_prefix \o RelPath(i) = b})

C17_Witness ==
    /\ upMainPc = "returned"
    /\ recursive
    /\ ~AnyUploadFailed
    /\ consumer_count > 1
    /\ path_prefix # <<>>
    /\ \E i \in FileEntries, j \in FileEntries :
          folderEntries[i].depth = 1 /\ folderEntries[j].depth = 2
    /\ \E i \in 1..Len(folderEntries) : folderEntries[i].kind = "dir"


(***************************************************************************)
(* SchemeFileHandler: the disposal registry and delete_if_not_local.       *)
(***************************************************************************)
LocalFiles == 1..NumLocalFiles
Threads == 1..NumThreads
NoThread == 0

\* how a path names its file: absolute and normal, relative to the working
\* directory, or absolute with a "subdir/.." detour
Spellings == {"abs", "rel", "dotdot"}

\* a pathlib.Path: <<spelling, file it names>>
Paths == Spellings \X LocalFiles

\* Path.resolve(): the absolute normal path of the same file
Resolve(p) == <<"abs", p[2]>>

\* Path.__eq__: paths are equal when their parts are, whatever they resolve to
PathEq(p, q) == p = q

\* a FileHandle object; id stands for the object's identity
FileHandle(id, path, must_dispose) ==
    [id |-> id, path |-> path, must_dispose |-> must_dispose]

\* handle.must_dispose
AnyHandle(h) == TRUE
MustDispose(h) == h.must_dispose

RECURSIVE SelectHandles(_, _)
\* [handle for handle in self.file_handles if handle.must_dispose and handle.path == path]
SelectHandles(handles, path) ==
    IF handles = <<>> THEN <<>>
    ELSE IF MustDispose(Head(handles)) /\ PathEq(Head(handles).path, path)
         THEN <<Head(handles)>> \o SelectHandles(Tail(handles), path)
         ELSE SelectHandles(Tail(handles), path)

RECURSIVE RemoveHandle(_, _)
\* list.remove(handle): drops the first occurrence of that object
RemoveHandle(handles, h) ==
    IF handles = <<>> THEN <<>>
    ELSE IF Head(handles).id = h.id THEN Tail(handles)
         ELSE <<Head(handles)>> \o RemoveHandle(Tail(handles), h)

HandleIds(handles) == {handles[i].id : i \in 1..Len(handles)}

\* the must_dispose handles whose path resolves to the file path resolves to
ResolvedMatches(handles, path) ==
    {handles[i] : i \in {j \in 1..Len(handles) :
        handles[j].must_dispose /\ Resolve(handles[j].path) = Resolve(path)}}

\* the argument of a thread that is in no call
NoPath == <<"abs", 1>>

\* the state of a new SchemeFileHandler
RegistryEntry ==
    /\ file_handles = <<>>
    /\ registered = 0
    /\ lockOwner = NoThread
    /\ delPc = [t \in Threads |-> "idle"]
    /\ delArg = [t \in Threads |-> NoPath]
    /\ to_remove = [t \in Threads |-> <<>>]
    /\ resolvedMatch = [t \in Threads |-> {}]
    /\ unlinkCalls = [f \in LocalFiles |-> 0]

\* a new SchemeFileHandler; the caller's own files are on disk already
RegistryInit ==
    /\ disk \in SUBSET LocalFiles
    /\ RegistryEntry

\* no SchemeFileHandler in use
RegistryIdle ==
    /\ disk = {}
    /\ RegistryEntry

\* create_file, create_text_file and the remote download_file: a new
\* temporary file is written and registered with must_dispose = True under
\* the name NamedTemporaryFile gives, which is absolute and normal
RegisterTemporary(f) ==
    /\ registered < MaxHandles
    /\ f \notin disk
    /\ unlinkCalls[f] = 0
    /\ disk' = disk \cup {f}
    /\ registered' = registered + 1
    /\ file_handles' = Append(file_handles, FileHandle(registered + 1, <<"abs", f>>, TRUE))
    /\ UNCHANGED <<lockOwner, delPc, delArg, to_remove, resolvedMatch, unlinkCalls>>
    /\ RegistryFrame

\* download_file of the local-filesystem backend: the caller's own path is
\* registered with must_dispose = False; nothing is written
RegisterLocal(p) ==
    /\ registered < MaxHandles
    /\ registered' = registered + 1
    /\ file_handles' = Append(file_handles, FileHandle(registered + 1, p, FALSE))
    /\ UNCHANGED <<disk, lockOwner, delPc, delArg, to_remove, resolvedMatch, unlinkCalls>>
    /\ RegistryFrame

\* with self._lock left out
LockFreeNoLock(t) == TRUE

\* whether thread t may enter "with self._lock"
LockFree(t) == lockOwner = NoThread

\* a thread calls delete_if_not_local(path), every thread once: it waits for
\* self._lock, enters the with block and computes to_remove = [...]
DeleteEnter(t, path) ==
    /\ delPc[t] = "idle"
    /\ LockFree(t)
    /\ lockOwner' = t
    /\ delArg' = [delArg EXCEPT ![t] = path]
    /\ to_remove' = [to_remove EXCEPT ![t] = SelectHandles(file_handles, path)]
    /\ resolvedMatch' = [resolvedMatch EXCEPT ![t] = ResolvedMatches(file_handles, path)]
    /\ delPc' = [delPc EXCEPT ![t] = "loop"]
    /\ UNCHANGED <<file_handles, disk, registered, unlinkCalls>>
    /\ RegistryFrame

\* for handle in to_remove: if handle.path.exists(); the lock is released
\* when the loop ends
DeleteLoop(t) ==
    /\ delPc[t] = "loop"
    /\ IF to_remove[t] = <<>>
       THEN /\ delPc' = [delPc EXCEPT ![t] = "returned"]
            /\ lockOwner' = IF lockOwner = t THEN NoThread ELSE lockOwner
            /\ delArg' = [delArg EXCEPT ![t] = NoPath]
            /\ resolvedMatch' = [resolvedMatch EXCEPT ![t] = {}]
            /\ UNCHANGED to_remove
       ELSE IF Head(to_remove[t]).path[2] \in disk
            THEN /\ delPc' = [delPc EXCEPT ![t] = "unlink"]
                 /\ UNCHANGED <<lockOwner, to_remove, delArg, resolvedMatch>>
            ELSE /\ to_remove' = [to_remove EXCEPT ![t] = Tail(@)]
                 /\ UNCHANGED <<delPc, lockOwner, delArg, resolvedMatch>>
    /\ UNCHANGED <<file_handles, disk, registered, unlinkCalls>>
    /\ RegistryFrame

\* what self.file_handles.remove(handle) leaves of the registry
AfterRemove(handles, h) == RemoveHandle(handles, h)

\* os.unlink(handle.path); self.file_handles.remove(handle).  unlink raises
\* FileNotFoundError when the file is gone and remove raises ValueError when
\* the handle is no longer listed: either leaves the with block (which
\* releases the lock) and the call
DeleteUnlink(t) ==
    /\ delPc[t] = "unlink"
    /\ LET h == Head(to_remove[t])
           f == h.path[2]
       IN
       /\ unlinkCalls' = [unlinkCalls EXCEPT ![f] = @ + 1]
       /\ IF f \in disk /\ h.id \in HandleIds(file_handles)
          THEN /\ disk' = disk \ {f}
               /\ file_handles' = AfterRemove(file_handles, h)
               /\ to_remove' = [to_remove EXCEPT ![t] = Tail(@)]
               /\ delPc' = [delPc EXCEPT ![t] = "loop"]
               /\ UNCHANGED <<lockOwner, delArg, resolvedMatch>>
          ELSE /\ disk' = disk \ {f}
               /\ delPc' = [delPc EXCEPT ![t] = "raised"]
               /\ lockOwner' = IF lockOwner = t THEN NoThread ELSE lockOwner
               /\ delArg' = [delArg EXCEPT ![t] = NoPath]
               /\ to_remove' = [to_remove EXCEPT ![t] = <<>>]
               /\ resolvedMatch' = [resolvedMatch EXCEPT ![t] = {}]
               /\ UNCHANGED file_handles
    /\ UNCHANGED registered
    /\ RegistryFrame

RegistryNext ==
    \/ \E f \in LocalFiles : RegisterTemporary(f)
    \/ \E p \in Paths : RegisterLocal(p)
    \/ \E t \in Threads, p \in Paths : DeleteEnter(t, p)
    \/ \E t \in Threads : DeleteLoop(t)
    \/ \E t \in Threads : DeleteUnlink(t)

\* the must_dispose handles registered for file f
DisposableHandles(f) ==
    {i \in 1..Len(file_handles) : file_handles[i].must_dispose /\ file_handles[i].path[2] = f}

\* thread t has finished the loop of its call and is about to return
LoopFinished(t) == delPc[t] = "loop" /\ to_remove[t] = <<>>

\* C3: delete_if_not_local(p) matches handles by resolved path: when p is a
\* relative path or an absolute path with "..", every must_dispose handle
\* that resolved to p's file when the call read the registry has been
\* removed, and its file deleted, when the call's loop has finished.
C3_DeleteMatchesResolvedPath ==
    \A t \in Threads :
        (LoopFinished(t) /\ delArg[t][1] \in {"rel", "dotdot"}) =>
            \A h \in resolvedMatch[t] :
                /\ h.id \notin HandleIds(file_handles)
                /\ h.path[2] \notin disk

\* C9: whatever the interleaving of the calls, os.unlink is called at most
\* once for each file; a file that was unlinked has no must_dispose handle
\* left in the registry and is gone, and no call in progress still holds a
\* handle of it to delete.
C9_AtMostOnceDeletion ==
    \A f \in LocalFiles :
        /\ unlinkCalls[f] <= 1
        /\ unlinkCalls[f] >= 1 =>
             /\ DisposableHandles(f) = {}
             /\ f \notin disk
             /\ \A t \in Threads : \A i \in 1..Len(to_remove[t]) :
                    to_remove[t][i].path[2] # f

\* a second call for the path of a file that was unlinked before has found
\* nothing to remove
C9_Witness ==
    \E t \in Threads, u \in Threads :
        /\ t # u
        /\ delPc[u] = "returned"
        /\ LoopFinished(t)
        /\ unlinkCalls[delArg[t][2]] = 1
        /\ delArg[t][1] = "abs"

\* a thread is inside delete_if_not_local(path) and a handle matches its
\* argument: the handle is must_dispose and its path equals the argument
MatchedByCall(h) ==
    /\ h.must_dispose
    /\ \E t \in Threads : delPc[t] \in {"loop", "unlink"} /\ h.path = delArg[t]

\* C19: the frame of delete_if_not_local: a file leaves the disk only when a
\* registered must_dispose handle equal to the argument names it, and a
\* handle leaves the registry only when it is such a handle; the files and the
\* registry entries of must_dispose=false handles and of handles that do not
\* match the argument stay as they are.
C19_DeleteOnlyMatchingDisposable ==
    [][/\ \A f \in disk \ disk' :
             \E i \in 1..Len(file_handles) :
                 MatchedByCall(file_handles[i]) /\ file_handles[i].path[2] = f
       /\ \A i \in 1..Len(file_handles) :
             ~MatchedByCall(file_handles[i]) =>
                 \E j \in 1..Len(file_handles') : file_handles'[j] = file_handles[i]]_vars

C19_Witness ==
    \E t \in Threads, i \in 1..Len(file_handles) :
        /\ LoopFinished(t)
        /\ file_handles[i].path = delArg[t]
        /\ ~file_handles[i].must_dispose
        /\ file_handles[i].path[2] \in disk
        /\ \E f \in LocalFiles : unlinkCalls[f] = 1


(***************************************************************************)
(* kadaster/geo.py: the grid partitioner.                                  *)
(***************************************************************************)
GridCoords == 0..MaxCoord

\* the half widths of the (square) footprints; 0 is a point
HalfWidths == {0, 1}

RECURSIVE SubsetsUpTo(_, _)
\* the subsets of S with at most k elements
SubsetsUpTo(S, k) ==
    IF k = 0 THEN {{}}
    ELSE LET smaller == SubsetsUpTo(S, k - 1) IN
         smaller \cup {s \cup {e} : s \in smaller, e \in S}

\* the footprint files: at least one footprint, distinct centroids
FootprintFiles ==
    UNION {[cs -> HalfWidths] :
           cs \in SubsetsUpTo(GridCoords \X GridCoords, MaxFeatures) \ {{}}}

Centroids == DOMAIN features

Min(S) == CHOOSE m \in S : \A e \in S : m <= e
Max(S) == CHOOSE m \in S : \A e \in S : m >= e

\* src.bounds: the extent of all footprints, <<minx, miny, maxx, maxy>>
Bounds ==
    <<Min({c[1] - features[c] : c \in Centroids}),
      Min({c[2] - features[c] : c \in Centroids}),
      Max({c[1] + features[c] : c \in Centroids}),
      Max({c[2] + features[c] : c \in Centroids})>>

\* the bound as it is, not aligned
Unaligned(v, size) == v

\* math.floor(v / size) * size
FloorTo(v, size) == (v \div size) * size

\* math.ceil(v / size) * size
CeilTo(v, size) == (-((-v) \div size)) * size

\* range(from, to, step) as a sequence
Range(from, to, step) ==
    LET n == IF to > from THEN ((to - from) + step - 1) \div step ELSE 0
    IN [i \in 1..n |-> from + (i - 1) * step]

\* the task list of _generate_cells: (x, y) with x outermost
Tasks(minx, maxx, miny, maxy, size) ==
    LET xs == Range(minx, maxx, size)
        ys == Range(miny, maxy, size)
    IN [k \in 1..(Len(xs) * Len(ys)) |->
          <<xs[((k - 1) \div Len(ys)) + 1], ys[((k - 1) % Len(ys)) + 1]>>]

\* the cell box(x, y, x + grid_size, y + grid_size)
Cell(x, y, size) == <<x, y, x + size, y + size>>

\* gpd.read_file(filepath, bbox=cell): the footprints whose extent meets the cell
ReadBbox(cell) ==
    {c \in Centroids :
        /\ c[1] - features[c] <= cell[3] /\ c[1] + features[c] >= cell[1]
        /\ c[2] - features[c] <= cell[4] /\ c[2] + features[c] >= cell[2]}

\* Point.within(cell): in the interior of the cell, not on its boundary
InAnyCell(c, cell) == TRUE
Within(c, cell) ==
    /\ cell[1] < c[1] /\ c[1] < cell[3]
    /\ cell[2] < c[2] /\ c[2] < cell[4]

NoCell == <<>>

\* every candidate is returned
ProcessCellAlways(task, size) == Cell(task[1], task[2], size)

\* _process_cell: the cell when a footprint read for it has its centroid
\* within it, else None
ProcessCell(task, size) ==
    LET cell == Cell(task[1], task[2], size)
        footprints_within == {c \in ReadBbox(cell) : Within(c, cell)}
    IN IF Cardinality(footprints_within) > 0 THEN cell ELSE NoCell

\* queue.json before queuefunc has written it
NotWritten == [written |-> FALSE, items |-> <<>>]

GridEntry ==
    /\ results = <<>>
    /\ yielded = <<>>
    /\ gridPos = 0
    /\ gridPc = "bounds"
    /\ queue_json = NotWritten

GridInit ==
    /\ features \in FootprintFiles
    /\ grid_size \in 1..MaxGridSize
    /\ source_readable \in BOOLEAN
    /\ cell_raises \in BOOLEAN
    /\ GridEntry

\* the partitioner not in use
GridIdle ==
    /\ features = [c \in {<<0, 0>>} |-> 0]
    /\ grid_size = 1
    /\ source_readable = TRUE
    /\ cell_raises = FALSE
    /\ GridEntry

\* the task list for the bounds of the file, aligned to the grid
AlignedTasks ==
    Tasks(FloorTo(Bounds[1], grid_size), CeilTo(Bounds[3], grid_size),
          FloorTo(Bounds[2], grid_size), CeilTo(Bounds[4], grid_size), grid_size)

\* no failure is ever raised
RaisesNever(tasks) == FALSE

\* fiona.open raises for a file it cannot read; pool.map raises, once every
\* task has run, the exception of a task that raised
Raises(tasks) == ~source_readable \/ (cell_raises /\ Len(tasks) > 0)

\* grid_create_on_intersecting_centroid up to pool.map in _generate_cells:
\* the bounds are aligned to the grid and every candidate cell is evaluated;
\* an exception leaves the generator and the queuefunc that iterates it
GridMapCells ==
    /\ gridPc = "bounds"
    /\ LET minx == FloorTo(Bounds[1], grid_size)
           miny == FloorTo(Bounds[2], grid_size)
           maxx == CeilTo(Bounds[3], grid_size)
           maxy == CeilTo(Bounds[4], grid_size)
           tasks == Tasks(minx, maxx, miny, maxy, grid_size)
       IN IF Raises(tasks)
          THEN /\ gridPc' = "raised"
               /\ UNCHANGED results
          ELSE /\ results' = [k \in 1..Len(tasks) |-> ProcessCell(tasks[k], grid_size)]
               /\ gridPc' = "yield"
    /\ UNCHANGED <<features, grid_size, yielded, gridPos, source_readable, cell_raises,
                   queue_json>>
    /\ GridFrame

\* for result in results: a None is passed over
GridSkipNone ==
    /\ gridPc = "yield"
    /\ gridPos < Len(results)
    /\ results[gridPos + 1] = NoCell
    /\ gridPos' = gridPos + 1
    /\ UNCHANGED <<features, grid_size, results, yielded, gridPc, source_readable,
                   cell_raises, queue_json>>
    /\ GridFrame

\* for result in results: if result is not None: yield result
GridYield ==
    /\ gridPc = "yield"
    /\ gridPos < Len(results)
    /\ results[gridPos + 1] # NoCell
    /\ yielded' = Append(yielded, results[gridPos + 1])
    /\ gridPos' = gridPos + 1
    /\ UNCHANGED <<features, grid_size, results, gridPc, source_readable, cell_raises,
                   queue_json>>
    /\ GridFrame

\* the generator is exhausted
GridDone ==
    /\ gridPc = "yield"
    /\ gridPos = Len(results)
    /\ gridPc' = "done"
    /\ UNCHANGED <<features, grid_size, results, yielded, gridPos, source_readable,
                   cell_raises, queue_json>>
    /\ GridFrame

\* queuefunc after "for worker, extent in enumerate(grid)": the queue built
\* from the cells is written to /workflow/queue.json
WriteQueue ==
    /\ gridPc = "done"
    /\ ~queue_json.written
    /\ queue_json' = [written |-> TRUE, items |-> yielded]
    /\ UNCHANGED <<features, grid_size, results, yielded, gridPos, gridPc,
                   source_readable, cell_raises>>
    /\ GridFrame

GridNext ==
    \/ GridMapCells
    \/ GridSkipNone
    \/ GridYield
    \/ GridDone
    \/ WriteQueue

\* the number of footprints whose centroid is within the cell
ContainedCount(cell) == Cardinality({c \in Centroids : Within(c, cell)})

RECURSIVE SumContained(_)
SumContained(cells) ==
    IF cells = <<>> THEN 0
    ELSE ContainedCount(Head(cells)) + SumContained(Tail(cells))

\* C4: partition completeness: when the partitioner has yielded its last
\* cell, every footprint's centroid is contained in some yielded cell and the
\* contained counts of the yielded cells add up to the number of footprints.
C4_PartitionComplete ==
    gridPc = "done" =>
        /\ \A c \in Centroids : \E i \in 1..Len(yielded) : Within(c, yielded[i])
        /\ SumContained(yielded) = Cardinality(Centroids)

\* runsingleroofertile: building_footprints_filtered for the extent of a
\* cell: the footprints read with bbox=extent whose centroid is within it
FootprintsFiltered(extent) ==
    {c \in ReadBbox(extent) : Within(c, extent)}

\* C20: partition disjointness: no footprint is counted in, or selected by,
\* two different yielded cells: the yielded cells are pairwise different and
\* the sets of footprints whose centroid is within each are disjoint.
C20_CellsDisjoint ==
    \A i \in 1..Len(yielded) : \A j \in 1..Len(yielded) :
        i # j =>
            /\ yielded[i] # yielded[j]
            /\ FootprintsFiltered(yielded[i]) \cap FootprintsFiltered(yielded[j]) = {}
            /\ {c \in Centroids : Within(c, yielded[i]) /\ Within(c, yielded[j])} = {}

C20_Witness ==
    /\ gridPc = "done"
    /\ \E i \in 1..Len(yielded) : \E j \in 1..Len(yielded) :
          /\ i # j
          /\ \E c \in ReadBbox(yielded[i]) \cap ReadBbox(yielded[j]) :
                c \in FootprintsFiltered(yielded[i])


\* the candidate cells of _generate_cells: one per task
CandidateCells ==
    LET tasks == Tasks(FloorTo(Bounds[1], grid_size), CeilTo(Bounds[3], grid_size),
                       FloorTo(Bounds[2], grid_size), CeilTo(Bounds[4], grid_size),
                       grid_size)
    IN {Cell(tasks[k][1], tasks[k][2], grid_size) : k \in 1..Len(tasks)}

Emitted == {yielded[i] : i \in 1..Len(yielded)}

\* C21: a candidate cell is emitted if and only if at least one footprint
\* centroid lies strictly within it: every emitted cell is a candidate with a
\* centroid in its interior, and when the partitioner is exhausted every
\* candidate with a centroid in its interior has been emitted.
C21_EmittedIffOccupied ==
    /\ \A cell \in Emitted :
          /\ cell \in CandidateCells
          /\ \E c \in Centroids :
                /\ cell[1] < c[1] /\ c[1] < cell[3]
                /\ cell[2] < c[2] /\ c[2] < cell[4]
    /\ gridPc = "done" =>
          \A cell \in CandidateCells :
              (\E c \in Centroids :
                  /\ cell[1] < c[1] /\ c[1] < cell[3]
                  /\ cell[2] < c[2] /\ c[2] < cell[4])
              => cell \in Emitted

\* footprints in two diagonal quadrants only: two of the four candidates
C21_Witness ==
    /\ gridPc = "done"
    /\ grid_size = 2
    /\ Centroids = {<<1, 1>>, <<3, 3>>}
    /\ Cardinality(CandidateCells) = 4
    /\ yielded = <<<<0, 0, 2, 2>>, <<2, 2, 4, 4>>>>

\* the geometry source cannot be read, or the evaluation of a cell fails
PartitioningFails == ~source_readable \/ (cell_raises /\ Len(AlignedTasks) > 0)

\* C35: an unreadable geometry source or a failing cell evaluation aborts
\* the partitioning as a whole: the partitioner raises before it yields any
\* cell, so no cell is ever yielded and no manifest is written from a partial
\* sequence of cells.
C35_FailureYieldsNothing ==
    PartitioningFails =>
        /\ yielded = <<>>
        /\ ~queue_json.written
        /\ gridPc \in {"bounds", "raised"}

\* a cell evaluation failed for a file with an occupied cell
C35_Witness ==
    /\ gridPc = "raised"
    /\ source_readable
    /\ cell_raises
    /\ Cardinality(Centroids) = 2
    /\ \E k \in 1..Len(AlignedTasks) : ProcessCell(AlignedTasks[k], grid_size) # NoCell

(***************************************************************************)
(* pointcloud/laz.py: the point cloud splitter.                            *)
(***************************************************************************)
\* chunk_size, int(1 GiB / 50) points in the source, scaled down
ChunkSize == 2

PointCoords == MinPointCoord..MaxPointCoord
PointYCoords == 0..MaxPointCoord

\* the input files: at least one point
PointClouds ==
    UNION {[1..n -> PointCoords \X PointYCoords] : n \in 1..MaxPoints}

\* pointcloud.header: x_min, y_min, x_max, y_max are the extremes of the points
HeaderXMin == Min({points[i][1] : i \in 1..Len(points)})
HeaderYMin == Min({points[i][2] : i \in 1..Len(points)})
HeaderXMax == Max({points[i][1] : i \in 1..Len(points)})
HeaderYMax == Max({points[i][2] : i \in 1..Len(points)})

grid_origin_x == FloorTo(HeaderXMin, split_grid_size)
grid_origin_y == FloorTo(HeaderYMin, split_grid_size)
grid_max_x == CeilTo(HeaderXMax, split_grid_size)
grid_max_y == CeilTo(HeaderYMax, split_grid_size)

\* int((grid_max - grid_origin) / grid_size)
max_tile_x == (grid_max_x - grid_origin_x) \div split_grid_size
max_tile_y == (grid_max_y - grid_origin_y) \div split_grid_size

\* the tiles visited by "for tx in range(..): for ty in range(..)"
TileRange == (0..(max_tile_x - 1)) \X (0..(max_tile_y - 1))

\* ((point - grid_origin) / grid_size).astype(np.int32)
TileIdx(pt) ==
    <<(pt[1] - grid_origin_x) \div split_grid_size,
      (pt[2] - grid_origin_y) \div split_grid_size>>

\* the number of chunks pointcloud.chunk_iterator(chunk_size) yields
NumChunks == (Len(points) + ChunkSize - 1) \div ChunkSize

\* the k-th point_batch
Chunk(k) ==
    SubSeq(points, (k - 1) * ChunkSize + 1,
           IF k * ChunkSize < Len(points) THEN k * ChunkSize ELSE Len(points))

\* point_batch[mask] for the tile
SelectedPoints(point_batch, tile) ==
    LET InTile(pt) == TileIdx(pt) = tile IN SelectSeq(point_batch, InTile)

\* the two coordinates of the name exchanged
TileNameSwapped(tile) ==
    <<grid_origin_y + tile[2] * split_grid_size,
      grid_origin_x + tile[1] * split_grid_size>>

\* (int(start_x), int(start_y)) of output_filename
TileName(tile) ==
    <<grid_origin_x + tile[1] * split_grid_size,
      grid_origin_y + tile[2] * split_grid_size>>

\* every tile of the range
AllTiles(point_batch) == TileRange

\* the tiles (tx, ty) of the range for which np.any(mask) holds: the tile
\* indexes of the points of the point_batch that are in the range
HitTiles(point_batch) ==
    {TileIdx(point_batch[i]) : i \in 1..Len(point_batch)} \cap TileRange

\* a file name is a sequence of tokens: a word, "_", "-" or a run of digits
Word == [kind |-> "w", val |-> 0]
Sep == [kind |-> "_", val |-> 0]
Minus == [kind |-> "-", val |-> 0]
Digits(n) == [kind |-> "d", val |-> n]

\* Path(input_laz).stem: a name that itself ends in "_" and digits
Stem == <<Word, Sep, Digits(1)>>

\* f"{int(start)}"
FormatInt(n) == IF n < 0 THEN <<Minus, Digits(-n)>> ELSE <<Digits(n)>>

\* Path(tile_path).stem: f"{Path(input_laz).stem}_{int(start_x)}_{int(start_y)}"
OutputFilename(tile) ==
    Stem \o <<Sep>> \o FormatInt(TileName(tile)[1])
         \o <<Sep>> \o FormatInt(TileName(tile)[2])

NoMatch == <<>>

\* re.search(r'.*_(\d+)_(\d+)$', file_stem): the two groups, or no match
ParseCoords(file_stem) ==
    LET n == Len(file_stem)
    IN IF /\ n >= 4
          /\ file_stem[n].kind = "d" /\ file_stem[n - 1] = Sep
          /\ file_stem[n - 2].kind = "d" /\ file_stem[n - 3] = Sep
       THEN <<file_stem[n - 2].val, file_stem[n].val>>
       ELSE NoMatch

SplitEntry ==
    /\ chunksRead = 0
    /\ generated_tiles = {}
    /\ tile_files = <<>>
    /\ splitPc = "chunks"
    /\ uploadedTiles = {}
    /\ failedTiles = {}
    /\ opened_w = <<>>

SplitInit ==
    /\ points \in PointClouds
    /\ split_grid_size \in 1..MaxSplitGrid
    /\ SplitEntry

\* the splitter not in use
SplitIdle ==
    /\ points = <<<<0, 0>>>>
    /\ split_grid_size = 1
    /\ SplitEntry

\* every tile is taken for new
GeneratedNever(t) == FALSE

\* (tx, ty) in generated_tiles
Generated(t) == t \in generated_tiles

\* one iteration of "for point_batch in point_batches": every tile of the
\* range that has points in the point_batch is written (first time) or appended to
SplitChunk ==
    /\ splitPc = "chunks"
    /\ chunksRead < NumChunks
    /\ LET point_batch == Chunk(chunksRead + 1)
           hit == HitTiles(point_batch)
           TileOf(name) == CHOOSE t \in hit : TileName(t) = name
       IN /\ tile_files' =
                [name \in (DOMAIN tile_files) \cup {TileName(t) : t \in hit} |->
                    IF name \notin {TileName(t) : t \in hit}
                    THEN tile_files[name]
                    ELSE IF Generated(TileOf(name))
                         THEN tile_files[name] \o SelectedPoints(point_batch, TileOf(name))
                         ELSE SelectedPoints(point_batch, TileOf(name))]
          /\ opened_w' =
                [name \in (DOMAIN opened_w) \cup {TileName(t) : t \in hit} |->
                    (IF name \in DOMAIN opened_w THEN opened_w[name] ELSE 0)
                    + (IF name \in {TileName(t) : t \in hit} /\ ~Generated(TileOf(name))
                       THEN 1 ELSE 0)]
          /\ generated_tiles' = generated_tiles \cup hit
    /\ chunksRead' = chunksRead + 1
    /\ UNCHANGED <<points, split_grid_size, splitPc, uploadedTiles, failedTiles>>
    /\ SplitFrame

\* return list(generated_tiles.values())
SplitReturn ==
    /\ splitPc = "chunks"
    /\ chunksRead = NumChunks
    /\ splitPc' = "returned"
    /\ UNCHANGED <<points, split_grid_size, chunksRead, generated_tiles, tile_files,
                   uploadedTiles, failedTiles, opened_w>>
    /\ SplitFrame

\* _process_laz_file after the split: _upload_and_cleanup for every generated
\* tile; a tile whose name matches is uploaded under its coordinates and
\* removed, for one whose name does not match the ValueError is caught and
\* logged; future.result() returns None for both
UploadTiles ==
    /\ splitPc = "returned"
    /\ uploadedTiles' =
          {ParseCoords(OutputFilename(t)) :
              t \in {u \in generated_tiles : ParseCoords(OutputFilename(u)) # NoMatch}}
    /\ failedTiles' =
          {OutputFilename(t) :
              t \in {u \in generated_tiles : ParseCoords(OutputFilename(u)) = NoMatch}}
    /\ splitPc' = "uploaded"
    /\ UNCHANGED <<points, split_grid_size, chunksRead, generated_tiles, tile_files,
                   opened_w>>
    /\ SplitFrame

SplitNext ==
    \/ SplitChunk
    \/ SplitReturn
    \/ UploadTiles

\* the number of positions of the sequence that hold the point
Occurrences(seq, pt) == Cardinality({i \in 1..Len(seq) : seq[i] = pt})

RECURSIVE SumOver(_, _, _)
\* the sum of Op over the finite set S, with Op(e) == Occurrences(tile_files[e], pt)
SumOver(S, pt, acc) ==
    IF S = {} THEN acc
    ELSE LET e == CHOOSE x \in S : TRUE
         IN SumOver(S \ {e}, pt, acc + Occurrences(tile_files[e], pt))

\* how often the point is found in the produced tile files
WrittenOccurrences(pt) == SumOver(DOMAIN tile_files, pt, 0)

\* C5: splitter conservation: when laz_tile_split has returned, every point
\* of the input is in the tile files exactly as often as in the input, so
\* the point counts of the tile files add up to the input's point count.
C5_SplitConservation ==
    splitPc = "returned" =>
        \A pt \in PointCoords \X PointCoords :
            WrittenOccurrences(pt) = Occurrences(points, pt)

\* the points of the point_batches read so far
PointsRead ==
    SubSeq(points, 1,
           IF chunksRead * ChunkSize < Len(points)
           THEN chunksRead * ChunkSize ELSE Len(points))

\* C22: every point written by laz_tile_split is written to exactly one tile
\* file, and the origin (ox, oy) in that file's name satisfies
\* ox <= x < ox + size and oy <= y < oy + size.
C22_PointInItsTile ==
    /\ \A name \in DOMAIN tile_files :
          \A i \in 1..Len(tile_files[name]) :
              LET pt == tile_files[name][i] IN
              /\ name[1] <= pt[1] /\ pt[1] < name[1] + split_grid_size
              /\ name[2] <= pt[2] /\ pt[2] < name[2] + split_grid_size
    /\ \A name \in DOMAIN tile_files :
          \A i \in 1..Len(tile_files[name]) :
              LET pt == tile_files[name][i] IN
              /\ Occurrences(tile_files[name], pt) <= Occurrences(PointsRead, pt)
              /\ \A other \in DOMAIN tile_files \ {name} :
                    Occurrences(tile_files[other], pt) = 0

\* three points in the two tiles with origins (-2, 0) and (0, 0)
C22_Witness ==
    /\ splitPc = "returned"
    /\ Len(points) = 3
    /\ split_grid_size = 2
    /\ DOMAIN tile_files = {<<-2, 0>>, <<0, 0>>}
    /\ Len(tile_files[<<-2, 0>>]) + Len(tile_files[<<0, 0>>]) = 3

\* the paths of list(generated_tiles.values()), one for each key
ReturnedPaths == {TileName(t) : t \in generated_tiles}

\* C29: a tile file is created only when a point is routed to its tile: every
\* tile file holds at least one point, and the returned list holds the path
\* of each tile that received points exactly once and no other path.
C29_NoEmptyTiles ==
    /\ \A name \in DOMAIN tile_files : Len(tile_files[name]) >= 1
    /\ ReturnedPaths = DOMAIN tile_files
    /\ Cardinality(generated_tiles) = Cardinality(ReturnedPaths)
    /\ \A t \in TileRange :
          t \in generated_tiles <=>
              \E i \in 1..Len(PointsRead) : TileIdx(PointsRead[i]) = t

\* a tile written by the first point_batch and appended to by the second,
\* and tiles of the range that no point is routed to
C29_Witness ==
    /\ splitPc = "returned"
    /\ \E t \in generated_tiles :
          /\ SelectedPoints(Chunk(1), t) # <<>>
          /\ SelectedPoints(Chunk(2), t) # <<>>
    /\ TileRange \ generated_tiles # {}

\* C26: where tile coordinates are required from a file name, a name that
\* does not match the coordinate pattern makes the operation fail: uploading
\* the tiles of a split never ends normally with a tile whose name did not
\* match left out.
C26_MalformedNameFails ==
    splitPc = "uploaded" =>
        \A t \in generated_tiles : ParseCoords(OutputFilename(t)) # NoMatch

\* C27: tile coordinates survive the file-name round trip: parsing the name
\* of every tile the splitter produced recovers the origin it encoded.
C27_NameRoundTrip ==
    \A t \in generated_tiles : ParseCoords(OutputFilename(t)) = TileName(t)

\* the file holds what it held, possibly with points added at its end
Extends(after, before) ==
    /\ Len(after) >= Len(before)
    /\ SubSeq(after, 1, Len(before)) = before

\* C36: within one laz_tile_split call every tile file is created (opened
\* with a truncating write) at most once, and every later chunk appends: a
\* step never removes a tile file and never changes the points it holds.
C36_CreateOnceThenAppend ==
    /\ [](\A name \in DOMAIN opened_w : opened_w[name] <= 1)
    /\ [][\A name \in DOMAIN tile_files :
             /\ name \in DOMAIN tile_files'
             /\ Extends(tile_files'[name], tile_files[name])]_vars

\* a tile file written by the first chunk got points of the second chunk
C36_Witness ==
    /\ chunksRead = 2
    /\ \E name \in DOMAIN tile_files :
          /\ Len(tile_files[name]) = 3
          /\ opened_w[name] = 1

(***************************************************************************)
(* argo/roofer.py: the work manifest and the workers.                      *)
(***************************************************************************)
\* the units in the order the grid yields them; enumerate() gives unit u
\* the index u - 1
Units == 1..NumUnits

WorkerIds == 0..(MaxWorkers - 1)

\* the workflow is run twice
Runs == 1..2

\* RetryStrategy(limit=5) of workerfunc, scaled down
RetryLimit == 1

\* how a process_task can end: the output uploaded; runsingleroofertile
\* returns without an upload (no point clouds, no jsonl, or the caught
\* CalledProcessError); any other exception leaves the task
Outcomes == {"produced", "nooutput", "raised"}

\* range(1, workercount + 1) in the place of range(workercount)
LaunchedFromOne == 1..workercount

\* json.dump([i for i in range(workercount)]): the workers that are launched
Launched == 0..(workercount - 1)

\* file_handler.file_exists(cityjson_file) is False
MissingAlways(u) == TRUE
DestinationMissing(u) == u \notin exists

RECURSIVE BuildQueue(_, _)
\* the loop of queuefunc over enumerate(grid), from unit u on
BuildQueue(u, n) ==
    IF u > NumUnits THEN <<>>
    ELSE IF DestinationMissing(u)
         THEN <<[worker |-> (u - 1) % n, unit |-> u]>> \o BuildQueue(u + 1, n)
         ELSE BuildQueue(u + 1, n)

\* local_queue = [x for x in global_queue if int(x["worker"]) == workerid]
local_queue(w) ==
    LET Mine(x) == x.worker = w IN SelectSeq(global_queue, Mine)

LocalUnits(w) == {local_queue(w)[i].unit : i \in 1..Len(local_queue(w))}

ManifestEntry ==
    /\ exists = existsAtStart
    /\ run = 1
    /\ wfPc = "queue"
    /\ global_queue = <<>>
    /\ workerPc = [w \in WorkerIds |-> "pending"]
    /\ attempts = [w \in WorkerIds |-> 0]
    /\ resultPos = [w \in WorkerIds |-> 0]
    /\ taskState = [u \in Units |-> "none"]
    /\ uploadedInRun = [r \in Runs |-> {}]
    /\ roofer_calls = {}

ManifestInit ==
    /\ workercount \in 1..MaxWorkers
    /\ existsAtStart \in SUBSET Units
    /\ ManifestEntry

\* the workflow not in use
ManifestIdle ==
    /\ workercount = 1
    /\ existsAtStart = {}
    /\ ManifestEntry

\* queuefunc: the manifest is built and written to /workflow/queue.json
QueueFunc ==
    /\ wfPc = "queue"
    /\ global_queue' = BuildQueue(1, workercount)
    /\ wfPc' = "workers"
    /\ UNCHANGED <<workercount, existsAtStart, exists, run, workerPc, attempts,
                   resultPos, taskState, uploadedInRun,
                   roofer_calls>>
    /\ ManifestFrame

\* the tasks of the worker are all submitted to the executor
Submitted(w) ==
    [u \in Units |-> IF u \in LocalUnits(w) THEN "submitted" ELSE taskState[u]]

\* workerfunc up to the submission of every process_task
WorkerStart(w) ==
    /\ wfPc = "workers"
    /\ w \in Launched
    /\ workerPc[w] = "pending"
    /\ workerPc' = [workerPc EXCEPT ![w] = "results"]
    /\ taskState' = Submitted(w)
    /\ UNCHANGED <<workercount, existsAtStart, exists, run, wfPc, global_queue,
                   attempts, resultPos, uploadedInRun,
                   roofer_calls>>
    /\ ManifestFrame

\* process_task for the unit, in a thread of the executor: the destination
\* is checked and logged, then runsingleroofertile runs in any case
ProcessTask(u, outcome) ==
    /\ wfPc = "workers"
    /\ taskState[u] = "submitted"
    /\ IF outcome = "produced"
       THEN /\ exists' = exists \cup {u}
            /\ uploadedInRun' = [uploadedInRun EXCEPT ![run] = @ \cup {u}]
       ELSE UNCHANGED <<exists, uploadedInRun>>
    /\ taskState' = [taskState EXCEPT ![u] = IF outcome = "raised" THEN "raised" ELSE "done"]
    /\ roofer_calls' = roofer_calls \cup {[unit |-> u, existed |-> u \in exists]}
    /\ UNCHANGED <<workercount, existsAtStart, run, wfPc, global_queue, workerPc,
                   attempts, resultPos>>
    /\ ManifestFrame

\* for future in futures: future.result() of a finished task; the task's
\* exception is raised again in workerfunc
WorkerResult(w) ==
    /\ workerPc[w] = "results"
    /\ resultPos[w] < Len(local_queue(w))
    /\ LET u == local_queue(w)[resultPos[w] + 1].unit IN
       /\ taskState[u] \in {"done", "raised"}
       /\ IF taskState[u] = "done"
          THEN /\ resultPos' = [resultPos EXCEPT ![w] = @ + 1]
               /\ UNCHANGED workerPc
          ELSE /\ workerPc' = [workerPc EXCEPT ![w] = "unwinding"]
               /\ UNCHANGED resultPos
    /\ UNCHANGED <<workercount, existsAtStart, exists, run, wfPc, global_queue,
                   attempts, taskState, uploadedInRun,
                   roofer_calls>>
    /\ ManifestFrame

\* the with block of the executor is left once every submitted task has run
ExecutorIdle(w) == \A u \in LocalUnits(w) : taskState[u] \in {"done", "raised"}

\* every result was collected: workerfunc returns
WorkerReturn(w) ==
    /\ workerPc[w] = "results"
    /\ resultPos[w] = Len(local_queue(w))
    /\ ExecutorIdle(w)
    /\ workerPc' = [workerPc EXCEPT ![w] = "returned"]
    /\ UNCHANGED <<workercount, existsAtStart, exists, run, wfPc, global_queue,
                   attempts, resultPos, taskState, uploadedInRun,
                   roofer_calls>>
    /\ ManifestFrame

\* the exception of future.result() leaves workerfunc
WorkerRaise(w) ==
    /\ workerPc[w] = "unwinding"
    /\ ExecutorIdle(w)
    /\ workerPc' = [workerPc EXCEPT ![w] = "raised"]
    /\ UNCHANGED <<workercount, existsAtStart, exists, run, wfPc, global_queue,
                   attempts, resultPos, taskState, uploadedInRun,
                   roofer_calls>>
    /\ ManifestFrame

\* retry_strategy: the orchestrator starts a failed workerfunc again
WorkerRetry(w) ==
    /\ wfPc = "workers"
    /\ workerPc[w] = "raised"
    /\ attempts[w] < RetryLimit
    /\ attempts' = [attempts EXCEPT ![w] = @ + 1]
    /\ workerPc' = [workerPc EXCEPT ![w] = "results"]
    /\ resultPos' = [resultPos EXCEPT ![w] = 0]
    /\ taskState' = Submitted(w)
    /\ UNCHANGED <<workercount, existsAtStart, exists, run, wfPc, global_queue,
                   uploadedInRun,
                   roofer_calls>>
    /\ ManifestFrame

\* every launched worker has returned or has failed for good
WorkersEnded ==
    \A w \in Launched :
        \/ workerPc[w] = "returned"
        \/ workerPc[w] = "raised" /\ attempts[w] = RetryLimit

\* the workflow is run again on the same inputs, the outputs left in place
RunAgain ==
    /\ wfPc = "workers"
    /\ WorkersEnded
    /\ run = 1
    /\ run' = 2
    /\ wfPc' = "queue"
    /\ global_queue' = <<>>
    /\ workerPc' = [w \in WorkerIds |-> "pending"]
    /\ attempts' = [w \in WorkerIds |-> 0]
    /\ resultPos' = [w \in WorkerIds |-> 0]
    /\ taskState' = [u \in Units |-> "none"]
    /\ roofer_calls' = {}
    /\ UNCHANGED <<workercount, existsAtStart, exists, uploadedInRun>>
    /\ ManifestFrame

\* the second run ends
WorkflowEnd ==
    /\ wfPc = "workers"
    /\ WorkersEnded
    /\ run = 2
    /\ wfPc' = "finished"
    /\ UNCHANGED <<workercount, existsAtStart, exists, run, global_queue, workerPc,
                   attempts, resultPos, taskState, uploadedInRun,
                   roofer_calls>>
    /\ ManifestFrame

ManifestNext ==
    \/ QueueFunc
    \/ \E w \in WorkerIds : WorkerStart(w)
    \/ \E u \in Units, outcome \in Outcomes : ProcessTask(u, outcome)
    \/ \E w \in WorkerIds : WorkerResult(w)
    \/ \E w \in WorkerIds : WorkerReturn(w)
    \/ \E w \in WorkerIds : WorkerRaise(w)
    \/ \E w \in WorkerIds : WorkerRetry(w)
    \/ RunAgain
    \/ WorkflowEnd

\* the units of the manifest
QueuedUnits == {global_queue[i].unit : i \in 1..Len(global_queue)}

\* the manifest of the current run has been built
ManifestBuilt == wfPc # "queue"

\* C6 as stated: the manifest built by the second run is empty.
C6_SecondManifestEmpty ==
    (run = 2 /\ ManifestBuilt) => global_queue = <<>>

\* C6: resumability: the manifest built by the second run holds exactly the
\* units whose destination did not exist before the first run and whose first
\* run task uploaded no output; it is empty when the first run left no such unit.
C6_SecondManifestIsMissingWork ==
    (run = 2 /\ ManifestBuilt) =>
        /\ QueuedUnits = Units \ (existsAtStart \cup uploadedInRun[1])
        /\ (existsAtStart \cup uploadedInRun[1] = Units) => global_queue = <<>>

C6_Witness ==
    /\ run = 2
    /\ ManifestBuilt
    /\ global_queue = <<>>
    /\ uploadedInRun[1] # {}
    /\ existsAtStart # {}

\* the number of manifest items assigned to the worker
ItemCount(w) == Len(local_queue(w))

\* C7: worker fairness: in a built manifest of M items for N workers every
\* launched worker has floor(M/N) or ceil(M/N) items.
C7_WorkerFairness ==
    ManifestBuilt =>
        \A w \in Launched :
            LET M == Len(global_queue)
                N == workercount
            IN \/ ItemCount(w) = M \div N
               \/ ItemCount(w) = (M + N - 1) \div N

\* C8: worker isolation: whatever a task raises, the worker function does not
\* raise: no worker is ever left by the exception of one of its tasks.
C8_WorkerNeverRaises ==
    \A w \in WorkerIds : workerPc[w] \notin {"unwinding", "raised"}

\* the units of the manifest are in enumeration order, each at most once
InEnumerationOrder(q) ==
    \A i \in 1..Len(q) : \A j \in 1..Len(q) : i < j => q[i].unit < q[j].unit

\* C18: the manifest queuefunc builds holds exactly the units whose
\* destination does not exist when it is built, in enumeration order: an
\* existing destination is never queued and every missing one is.
C18_ManifestIsMissingUnits ==
    [][(wfPc = "queue" /\ wfPc' = "workers") =>
          /\ \A u \in Units : (u \in QueuedUnits') <=> (u \notin exists)
          /\ InEnumerationOrder(global_queue')]_vars

C18_Witness ==
    /\ ManifestBuilt
    /\ run = 2
    /\ Len(global_queue) >= 2
    /\ QueuedUnits # Units
    /\ existsAtStart = {}

\* C31: a task whose destination already exists when the task starts is
\* skipped: runsingleroofertile (reconstruction and upload) is never called
\* for a unit whose destination existed at the start of its process_task.
C31_ExistingDestinationSkipped ==
    \A c \in roofer_calls : ~c.existed

\* the launched workers whose slice holds item i of the manifest
Owners(i) ==
    {w \in Launched : \E j \in 1..Len(local_queue(w)) : local_queue(w)[j] = global_queue[i]}

\* C33: every manifest item is executed by exactly one worker: the worker
\* ids of a built manifest are in 0..N-1, every item is in the slice of
\* exactly one launched worker (the slices are pairwise disjoint and cover
\* the manifest), and a task is only ever submitted by the worker that owns
\* its item.
C33_ExactlyOneWorkerPerItem ==
    ManifestBuilt =>
        /\ \A i \in 1..Len(global_queue) :
              /\ global_queue[i].worker \in 0..(workercount - 1)
              /\ Cardinality(Owners(i)) = 1
        /\ \A w \in Launched : \A v \in Launched :
              w # v => LocalUnits(w) \cap LocalUnits(v) = {}
        /\ UNION {LocalUnits(w) : w \in Launched} = QueuedUnits
        /\ \A u \in Units :
              taskState[u] # "none" =>
                  \E w \in Launched : workerPc[w] # "pending" /\ u \in LocalUnits(w)

C33_Witness ==
    /\ wfPc = "workers"
    /\ workercount = 2
    /\ Len(global_queue) = 3
    /\ \A w \in Launched : workerPc[w] = "returned"


(***************************************************************************)
(* io/FileSchemeFileHandler.py, io/AzureSchemeFileHandler.py: navigate.    *)
(* A text is a sequence of characters; a file URI is given by the text     *)
(* after "file://", an object-storage URI by the text after the host name. *)
(***************************************************************************)
PathChars == {"/", "a", "#"}

Texts(n) == UNION {[1..k -> PathChars] : k \in 0..n}

\* the URIs navigated from: the path starts at the root
BaseTexts == {t \in Texts(MaxUriLen) : t # <<>> /\ t[1] = "/"}

RECURSIVE Find(_, _, _)
\* the first position at or after i of text that holds a character of chars,
\* Len(text) + 1 if there is none
Find(text, chars, i) ==
    IF i > Len(text) THEN Len(text) + 1
    ELSE IF text[i] \in chars THEN i
    ELSE Find(text, chars, i + 1)

\* urlparse(uri): the path ends at the first "?" or "#", the query is what
\* follows a "?" up to the first "#"
UrlPath(text) == SubSeq(text, 1, Find(text, {"?", "#"}, 1) - 1)
UrlQuery(text) ==
    LET hash == Find(text, {"#"}, 1)
        mark == Find(text, {"?"}, 1)
    IN IF mark < hash THEN SubSeq(text, mark + 1, hash - 1) ELSE <<>>

\* the path kept as it is
KeepSlashes(path) == path

\* path.lstrip('/')
Lstrip(path) == SubSeq(path, Find(path, PathChars \ {"/"}, 1), Len(path))

RECURSIVE Segments(_)
\* the parts of a path between its slashes, the empty ones left out
Segments(text) ==
    IF text = <<>> THEN <<>>
    ELSE IF text[1] = "/" THEN Segments(Tail(text))
    ELSE LET stop == Find(text, {"/"}, 1)
         IN <<SubSeq(text, 1, stop - 1)>> \o Segments(SubSeq(text, stop, Len(text)))

RECURSIVE JoinSegments(_)
\* "/".join(parts)
JoinSegments(parts) ==
    IF parts = <<>> THEN <<>>
    ELSE IF Len(parts) = 1 THEN parts[1]
    ELSE parts[1] \o <<"/">> \o JoinSegments(Tail(parts))

\* str(Path(text)): repeated and trailing slashes are dropped, two leading
\* slashes (and only two) are kept, the empty path is "."
PurePath(text) ==
    LET leading == Find(text, PathChars \ {"/"}, 1) - 1
        root == IF leading = 2 THEN <<"/", "/">>
                ELSE IF leading >= 1 THEN <<"/">> ELSE <<>>
        body == JoinSegments(Segments(text))
    IN IF root = <<>> /\ body = <<>> THEN <<".">> ELSE root \o body

\* FileSchemeFileHandler._get_local_path(uri): Path(netloc + path)
GetLocalPath(uri) == PurePath(UrlPath(uri))

\* os.path.join(a, b)
OsPathJoin(a, b) ==
    IF b # <<>> /\ b[1] = "/" THEN b
    ELSE IF a = <<>> \/ a[Len(a)] = "/" THEN a \o b
    ELSE a \o <<"/">> \o b

\* FileSchemeFileHandler.navigate(uri, path), without the "file://" in front
FileNavigate(uri, path) ==
    LET current_path == GetLocalPath(uri)
    IN IF path = <<>> THEN current_path
       ELSE OsPathJoin(current_path, Lstrip(path))

\* the object-storage URI of a place in the container "k" with SAS token "s"
AzureUri(base) == <<"/", "k">> \o base \o <<"?", "s">>

\* AzureSchemeFileHandler._parse_azure_uri(uri): container_name, path_prefix
\* and sas_token (real Azure Storage: the account is in the host name)
ParseAzureUri(uri) ==
    LET path == UrlPath(uri)
        first == Find(path, {"/"}, 1)
        second == Find(path, {"/"}, first + 1)
    IN [container_name |-> SubSeq(path, first + 1, second - 1),
        path_prefix |-> SubSeq(path, second + 1, Len(path)),
        sas_token |-> UrlQuery(uri)]

\* AzureSchemeFileHandler._make_blob_url, without scheme and host name
MakeBlobUrl(container_name, blob_path, sas_token) ==
    <<"/">> \o container_name \o <<"/">> \o blob_path \o <<"?">> \o sas_token

\* AzureSchemeFileHandler.navigate(uri, path)
AzureNavigate(uri, path) ==
    LET parsed == ParseAzureUri(uri)
        current_path == parsed.path_prefix
        combined_path ==
            IF current_path # <<>> /\ current_path[Len(current_path)] # "/"
            THEN current_path \o <<"/">> \o path
            ELSE IF current_path # <<>> THEN current_path \o path
            ELSE path
    IN MakeBlobUrl(parsed.container_name, combined_path, parsed.sas_token)

NoResults == [plain |-> <<>>, slashed |-> <<>>, level2 |-> <<>>, joined |-> <<>>]

NavigateEntry ==
    /\ navOut = NoResults
    /\ navPc = "call"

NavigateInit ==
    /\ navUri \in BaseTexts
    /\ navA \in Texts(MaxRelLen)
    /\ navB \in Texts(MaxRelLen)
    /\ NavigateEntry

\* navigate not in use
NavigateIdle ==
    /\ navUri = <<"/">>
    /\ navA = <<>>
    /\ navB = <<>>
    /\ NavigateEntry

\* the local-filesystem backend: navigate with a, with "/" + a, level by
\* level with a then b, and once with a + "/" + b
FileNavigateCalls ==
    /\ navPc = "call"
    /\ navOut' = [plain |-> FileNavigate(navUri, navA),
                  slashed |-> FileNavigate(navUri, <<"/">> \o navA),
                  level2 |-> FileNavigate(FileNavigate(navUri, navA), navB),
                  joined |-> FileNavigate(navUri, navA \o <<"/">> \o navB)]
    /\ navPc' = "file"
    /\ UNCHANGED <<navUri, navA, navB>>
    /\ NavigateFrame

\* the object-storage backend: the same calls
AzureNavigateCalls ==
    /\ navPc = "call"
    /\ LET uri == AzureUri(navUri)
       IN navOut' = [plain |-> AzureNavigate(uri, navA),
                     slashed |-> AzureNavigate(uri, <<"/">> \o navA),
                     level2 |-> AzureNavigate(AzureNavigate(uri, navA), navB),
                     joined |-> AzureNavigate(uri, navA \o <<"/">> \o navB)]
    /\ navPc' = "azure"
    /\ UNCHANGED <<navUri, navA, navB>>
    /\ NavigateFrame

NavigateNext ==
    \/ FileNavigateCalls
    \/ AzureNavigateCalls

\* text starts with prefix
IsPrefix(prefix, text) ==
    Len(prefix) <= Len(text) /\ SubSeq(text, 1, Len(prefix)) = prefix

\* result is base with rel appended, the leading slashes of rel left out
AppendedStripped(base, rel, result) ==
    /\ IsPrefix(base, result)
    /\ LET after == SubSeq(result, Len(base) + 1, Len(result))
           rest == IF base[Len(base)] # "/" /\ after # <<>> /\ after[1] = "/"
                   THEN Tail(after) ELSE after
       IN /\ rest = <<>> \/ rest[1] # "/"
          /\ \E k \in 0..Len(rel) :
                /\ \A i \in 1..k : rel[i] = "/"
                /\ SubSeq(rel, k + 1, Len(rel)) = rest

\* C23: on the local-filesystem backend navigate(base, rel) is the base path
\* with rel appended after every leading "/" of rel is left out, so the base
\* path is a prefix of the result, also when rel starts with "/".
C23_FileNavigateStaysUnderBase ==
    navPc = "file" =>
        /\ AppendedStripped(GetLocalPath(navUri), navA, navOut.plain)
        /\ AppendedStripped(GetLocalPath(navUri), <<"/">> \o navA, navOut.slashed)

\* navigate("file:///a", "/a") is "file:///a/a"
C23_Witness ==
    /\ navPc = "file"
    /\ navUri = <<"/", "a">>
    /\ navA = <<"a">>
    /\ navOut.slashed = <<"/", "a", "/", "a">>

\* the place a navigate result designates: the local path of a file URI,
\* the container and blob name of an object-storage URI
Location(result) ==
    IF navPc = "file" THEN <<GetLocalPath(result)>>
    ELSE <<ParseAzureUri(result).container_name, ParseAzureUri(result).path_prefix>>

\* C24: on every backend navigate(uri, "/" + p) designates the same place as
\* navigate(uri, p).
C24_LeadingSlashStrippedEverywhere ==
    navPc \in {"file", "azure"} =>
        Location(navOut.slashed) = Location(navOut.plain)

\* a relative path: not empty, no "/" in front
IsRelative(path) == path # <<>> /\ path[1] # "/"

\* C28: for relative paths a and b, navigating with a and then with b reaches
\* the same place as navigating once with a + "/" + b.
C28_NavigateComposes ==
    (navPc \in {"file", "azure"} /\ IsRelative(navA) /\ IsRelative(navB)) =>
        Location(navOut.level2) = Location(navOut.joined)

(***************************************************************************)
(* io/FileSchemeFileHandler.py, io/AzureSchemeFileHandler.py: listings,    *)
(* upload_file_direct and get_bytes.  A location is a sequence of names;   *)
(* the store holds the files (or blobs) below one root (or container).     *)
(***************************************************************************)
DirNames == {<<"a">>, <<"a", "b">>}
FileName == <<"f">>
\* the name of the local file that is uploaded
SourceName == <<"g">>

DirSeqs == UNION {[1..k -> DirNames] : k \in 0..MaxDirDepth}
AllFilePaths == {dirs \o <<FileName>> : dirs \in DirSeqs}

\* the content of the files that exist before the call
OldContent == 0
NoBytes == -1

\* the stores: at most MaxStored files
Stores == UNION {[S -> {OldContent}] : S \in SubsetsUpTo(AllFilePaths, MaxStored)}

\* p is strictly below the directory dir
Below(dir, p) == Len(p) > Len(dir) /\ SubSeq(p, 1, Len(dir)) = dir

\* os.path.isdir: the root, or a directory that holds a file somewhere below
IsDir(p) == p = <<>> \/ \E q \in DOMAIN store : Below(p, q)

\* the blob name of a location: its names joined with "/"
BlobName(p) == JoinSegments(p)

\* the path_prefix _parse_azure_uri takes from the URI
StPathPrefix == BlobName(stUri) \o (IF stSlash /\ stUri # <<>> THEN <<"/">> ELSE <<>>)

NoOutput == [entries |-> {}, bytes |-> NoBytes, raised |-> FALSE]

Entry(p, is_file) == [full_uri |-> p, is_file |-> is_file]

\* FileSchemeFileHandler._list_files_impl, recursive: os.walk yields the
\* directories and the files of every directory below path
FileEntriesRecursive ==
    {Entry(dir, FALSE) : dir \in {e \in DirSeqs : Below(stUri, e) /\ IsDir(e)}}
    \cup {Entry(q, TRUE) : q \in {f \in DOMAIN store : Below(stUri, f)}}

\* FileSchemeFileHandler._list_files_impl, shallow: os.listdir(path)
FileEntriesShallow ==
    {Entry(SubSeq(q, 1, Len(stUri) + 1), Len(q) = Len(stUri) + 1) :
        q \in {f \in DOMAIN store : Below(stUri, f)}}

\* container_client.list_blobs(name_starts_with=path_prefix): every blob
\* whose name starts with the text of the prefix
AzureEntriesRecursive ==
    {Entry(q, TRUE) : q \in {b \in DOMAIN store : IsPrefix(StPathPrefix, BlobName(b))}}

\* container_client.walk_blobs(name_starts_with=path_prefix + "/",
\* delimiter="/"): the blobs directly under the prefix, and a BlobPrefix for
\* every name under it that has blobs below
AzureEntriesShallow ==
    {Entry(SubSeq(q, 1, Len(stUri) + 1), Len(q) = Len(stUri) + 1) :
        q \in {b \in DOMAIN store : Below(stUri, b)}}

StorageEntry ==
    /\ stOut = NoOutput
    /\ stPc = "call"

StorageInit ==
    /\ store \in Stores
    /\ stUri \in DirSeqs \cup AllFilePaths
    /\ stSlash \in BOOLEAN
    /\ stSource \in 1..NumContents
    /\ StorageEntry

\* no storage backend in use
StorageIdle ==
    /\ store = <<>>
    /\ stUri = <<>>
    /\ stSlash = FALSE
    /\ stSource = 1
    /\ StorageEntry

\* FileSchemeFileHandler.list_entries_recursive(uri), the generator consumed
FileListRecursive ==
    /\ stPc = "call"
    /\ stOut' = IF IsDir(stUri)
                THEN [NoOutput EXCEPT !.entries = FileEntriesRecursive]
                ELSE [NoOutput EXCEPT !.raised = TRUE]
    /\ stPc' = "file_recursive"
    /\ UNCHANGED <<store, stUri, stSlash, stSource>>
    /\ StorageFrame

\* FileSchemeFileHandler.list_entries_shallow(uri), the generator consumed
FileListShallow ==
    /\ stPc = "call"
    /\ stOut' = IF IsDir(stUri)
                THEN [NoOutput EXCEPT !.entries = FileEntriesShallow]
                ELSE [NoOutput EXCEPT !.raised = TRUE]
    /\ stPc' = "file_shallow"
    /\ UNCHANGED <<store, stUri, stSlash, stSource>>
    /\ StorageFrame

\* AzureSchemeFileHandler.list_entries_recursive(uri), the generator consumed
AzureListRecursive ==
    /\ stPc = "call"
    /\ stOut' = [NoOutput EXCEPT !.entries = AzureEntriesRecursive]
    /\ stPc' = "azure_recursive"
    /\ UNCHANGED <<store, stUri, stSlash, stSource>>
    /\ StorageFrame

\* AzureSchemeFileHandler.list_entries_shallow(uri), the generator consumed
AzureListShallow ==
    /\ stPc = "call"
    /\ stOut' = [NoOutput EXCEPT !.entries = AzureEntriesShallow]
    /\ stPc' = "azure_shallow"
    /\ UNCHANGED <<store, stUri, stSlash, stSource>>
    /\ StorageFrame

\* the store with the content written at p
Written(p, content) ==
    [q \in DOMAIN store \cup {p} |-> IF q = p THEN content ELSE store[q]]

\* the parent directory of p
Parent(p) == SubSeq(p, 1, Len(p) - 1)

\* FileSchemeFileHandler.upload_file_direct(file, uri): shutil.copy(file,
\* destination) copies into the destination when that is a directory, and
\* raises when the directory of the destination does not exist
FileUploadDirect ==
    /\ stPc = "call"
    /\ stUri # <<>>
    /\ IF IsDir(stUri)
       THEN /\ store' = Written(stUri \o <<SourceName>>, stSource)
            /\ stPc' = "file_uploaded"
            /\ stOut' = stOut
       ELSE IF IsDir(Parent(stUri))
       THEN /\ store' = Written(stUri, stSource)
            /\ stPc' = "file_uploaded"
            /\ stOut' = stOut
       ELSE /\ store' = store
            /\ stPc' = "upload_raised"
            /\ stOut' = [NoOutput EXCEPT !.raised = TRUE]
    /\ UNCHANGED <<stUri, stSlash, stSource>>
    /\ StorageFrame

\* FileSchemeFileHandler.get_bytes(uri): open(source, "rb") raises for a
\* directory and for a file that does not exist
FileGetBytes ==
    /\ stPc = "file_uploaded"
    /\ stOut' = IF stUri \in DOMAIN store /\ ~IsDir(stUri)
                THEN [NoOutput EXCEPT !.bytes = store[stUri]]
                ELSE [NoOutput EXCEPT !.raised = TRUE]
    /\ stPc' = "file_got"
    /\ UNCHANGED <<store, stUri, stSlash, stSource>>
    /\ StorageFrame

\* AzureSchemeFileHandler.upload_file_direct(file, uri):
\* upload_blob(f, overwrite=True) on the blob of the URI
AzureUploadDirect ==
    /\ stPc = "call"
    /\ stUri # <<>>
    /\ store' = Written(stUri, stSource)
    /\ stPc' = "azure_uploaded"
    /\ UNCHANGED <<stUri, stSlash, stSource, stOut>>
    /\ StorageFrame

\* AzureSchemeFileHandler.get_bytes(uri): download_blob().readall()
AzureGetBytes ==
    /\ stPc = "azure_uploaded"
    /\ stOut' = IF stUri \in DOMAIN store
                THEN [NoOutput EXCEPT !.bytes = store[stUri]]
                ELSE [NoOutput EXCEPT !.raised = TRUE]
    /\ stPc' = "azure_got"
    /\ UNCHANGED <<store, stUri, stSlash, stSource>>
    /\ StorageFrame

StorageNext ==
    \/ FileListRecursive
    \/ FileListShallow
    \/ AzureListRecursive
    \/ AzureListShallow
    \/ FileUploadDirect
    \/ FileGetBytes
    \/ AzureUploadDirect
    \/ AzureGetBytes

\* C25: on every backend a recursive listing of a directory yields file
\* entries only, one for each file at any depth under the URI.
C25_RecursiveListsFilesOnly ==
    (stPc \in {"file_recursive", "azure_recursive"} /\ stUri \in DirSeqs
        /\ ~stOut.raised) =>
        /\ \A e \in stOut.entries : e.is_file
        /\ {e.full_uri : e \in stOut.entries} = {q \in DOMAIN store : Below(stUri, q)}

\* C30: on every backend getBytes(uri) after a completed
\* uploadDirect(path, uri) returns the content of the source file.
C30_UploadThenGetBytes ==
    stPc \in {"file_got", "azure_got"} =>
        /\ ~stOut.raised
        /\ stOut.bytes = stSource

(***************************************************************************)
(* main.py runsingleroofertile: the sources of one tile and its cleanup.   *)
(***************************************************************************)
\* a point-cloud source: whether its URI is remote (its downloads are
\* temporary files) and how many tiles of its index.gpkg intersect the
\* extent and are downloaded by _safe_download
Sources == [remote : BOOLEAN, tiles : 0..MaxTiles]

\* pointclouds followed by pointclouds_low_lod
SourceLists == UNION {[1..n -> Sources] : n \in 1..MaxSources}

RECURSIVE Register(_, _, _)
\* n calls of file_handler.download_file or create_file: self.file_handles
\* after them; every handle has a path of its own
Register(handles, n, must_dispose) ==
    IF n = 0 THEN handles
    ELSE Register(Append(handles, FileHandle(Len(handles) + 1,
                                             <<"abs", Len(handles) + 1>>,
                                             must_dispose)),
                  n - 1, must_dispose)

\* the temporary files the calls wrote
Downloaded(before, after) ==
    {after[i].path[2] : i \in {j \in (Len(before) + 1)..Len(after) : after[j].must_dispose}}

RECURSIVE DeleteHandles(_, _, _)
\* the loop of delete_if_not_local over to_remove: the registry and the
\* disk it leaves
DeleteHandles(removing, handles, dsk) ==
    IF removing = <<>> THEN [file_handles |-> handles, disk |-> dsk]
    ELSE IF Head(removing).path[2] \in dsk
         THEN DeleteHandles(Tail(removing), RemoveHandle(handles, Head(removing)),
                            dsk \ {Head(removing).path[2]})
         ELSE DeleteHandles(Tail(removing), handles, dsk)

\* file_handler.delete_if_not_local(path)
DeleteIfNotLocal(handles, dsk, path) ==
    DeleteHandles(SelectHandles(handles, path), handles, dsk)

\* how the try block around the roofer run ends: it completes (with or
\* without an upload), subprocess.CalledProcessError is caught and logged,
\* or another exception leaves runsingleroofertile
RooferOutcomes == {"completed", "calledprocesserror", "raised"}

TileEntry ==
    /\ tileHandles = <<>>
    /\ tileDisk = {}
    /\ sourcePos = 0
    /\ pointclouds_to_use = <<>>
    /\ tilePc = "footprints"
    /\ cleanupPos = 0

TileInit ==
    /\ all_pointclouds \in SourceLists
    /\ footprints_remote \in BOOLEAN
    /\ TileEntry

\* runsingleroofertile not in use
TileIdle ==
    /\ all_pointclouds = <<[remote |-> FALSE, tiles |-> 0]>>
    /\ footprints_remote = FALSE
    /\ TileEntry

\* footprint_file = file_handler.download_file(footprints)
DownloadFootprints ==
    /\ tilePc = "footprints"
    /\ tileHandles' = Register(tileHandles, 1, footprints_remote)
    /\ tileDisk' = tileDisk \cup Downloaded(tileHandles, tileHandles')
    /\ tilePc' = "sources"
    /\ UNCHANGED <<all_pointclouds, footprints_remote, sourcePos, pointclouds_to_use,
                   cleanupPos>>
    /\ TileFrame

\* one pass of "for pointcloud in all_pointclouds": index.gpkg and the
\* tiles are downloaded; a source without a downloaded tile ends the loop
\* (break), any other is appended to pointclouds_to_use
EvaluateSource ==
    /\ tilePc = "sources"
    /\ LET pointcloud == all_pointclouds[sourcePos + 1] IN
       /\ tileHandles' = Register(tileHandles, 1 + pointcloud.tiles, pointcloud.remote)
       /\ tileDisk' = tileDisk \cup Downloaded(tileHandles, tileHandles')
       /\ IF pointcloud.tiles = 0
          THEN /\ tilePc' = "config"
               /\ UNCHANGED <<sourcePos, pointclouds_to_use>>
          ELSE /\ pointclouds_to_use' = Append(pointclouds_to_use, sourcePos + 1)
               /\ sourcePos' = sourcePos + 1
               /\ tilePc' = IF sourcePos + 1 = Len(all_pointclouds)
                            THEN "config" ELSE "sources"
    /\ UNCHANGED <<all_pointclouds, footprints_remote, cleanupPos>>
    /\ TileFrame

\* if any(len(x.source) > 0 for x in pointclouds_to_use): the configuration
\* is generated and written with create_file; else the tile is skipped
GenerateConfig ==
    /\ tilePc = "config"
    /\ IF pointclouds_to_use # <<>>
       THEN /\ tileHandles' = Register(tileHandles, 1, TRUE)
            /\ tileDisk' = tileDisk \cup Downloaded(tileHandles, tileHandles')
            /\ tilePc' = "roofer"
       ELSE /\ tilePc' = "skipped"
            /\ UNCHANGED <<tileHandles, tileDisk>>
    /\ UNCHANGED <<all_pointclouds, footprints_remote, sourcePos, pointclouds_to_use,
                   cleanupPos>>
    /\ TileFrame

\* the try block: roofer, cjseq and the upload
RunRoofer(outcome) ==
    /\ tilePc = "roofer"
    /\ tilePc' = IF outcome = "raised" THEN "raised" ELSE "cleanup"
    /\ UNCHANGED <<all_pointclouds, footprints_remote, tileHandles, tileDisk, sourcePos,
                   pointclouds_to_use, cleanupPos>>
    /\ TileFrame

\* one pass of "for file in file_handler.file_handles:
\* file_handler.delete_if_not_local(file.path)": the list iterator takes the
\* element at its position in the list as it is then, and ends when the
\* position is past the end
CleanupStep ==
    /\ tilePc = "cleanup"
    /\ IF cleanupPos < Len(tileHandles)
       THEN LET file == tileHandles[cleanupPos + 1]
                left == DeleteIfNotLocal(tileHandles, tileDisk, file.path)
            IN /\ tileHandles' = left.file_handles
               /\ tileDisk' = left.disk
               /\ cleanupPos' = cleanupPos + 1
               /\ UNCHANGED tilePc
       ELSE /\ tilePc' = "done"
            /\ UNCHANGED <<tileHandles, tileDisk, cleanupPos>>
    /\ UNCHANGED <<all_pointclouds, footprints_remote, sourcePos, pointclouds_to_use>>
    /\ TileFrame

TileNext ==
    \/ DownloadFootprints
    \/ EvaluateSource
    \/ GenerateConfig
    \/ \E outcome \in RooferOutcomes : RunRoofer(outcome)
    \/ CleanupStep

\* C32: after the cleanup loop of runsingleroofertile every file registered
\* with must_dispose = true (the remote downloads and the generated
\* configuration) is gone from the disk and the registry holds no
\* must_dispose = true handle.
C32_CleanupDisposesAll ==
    tilePc = "done" =>
        /\ tileDisk = {}
        /\ \A i \in 1..Len(tileHandles) : ~tileHandles[i].must_dispose

\* the loop over the sources has ended
SourcesEvaluated == tilePc \notin {"footprints", "sources"}

\* the sources of the generated configuration
InConfig == {pointclouds_to_use[i] : i \in 1..Len(pointclouds_to_use)}

\* C34: a source with no downloadable tile is skipped and the remaining
\* sources are still evaluated: when the loop has ended, the configuration
\* holds exactly the sources that yield at least one tile.
C34_SourcesWithTilesIncluded ==
    SourcesEvaluated =>
        \A s \in 1..Len(all_pointclouds) :
            (s \in InConfig) <=> (all_pointclouds[s].tiles > 0)

(***************************************************************************)
(* main.py pointcloudsplit: the input files and their failures.            *)
(***************************************************************************)
LazFiles == 1..NumLazFiles

\* what fails for an input file: nothing, handler.download_file,
\* laz.laz_tile_split, or the upload of one of its tiles
Faults == {"none", "download", "split", "upload"}

\* no except clause
CaughtNever(fault) == FALSE

\* "except Exception as e" of _process_laz_file and of _upload_and_cleanup
Caught(fault) == fault \in Faults

\* how a function whose try block failed with the fault ends
AfterFailure(fault) == IF Caught(fault) THEN "returned" ELSE "raised"

PsplitEntry ==
    /\ lazPc = [f \in LazFiles |-> "unsubmitted"]
    /\ lazLogged = {}
    /\ lazUploaded = {}
    /\ lazCollected = {}
    /\ psplitPc = "start"

PsplitInit ==
    /\ lazFault \in [LazFiles -> Faults]
    /\ PsplitEntry

\* pointcloudsplit not in use
PsplitIdle ==
    /\ lazFault = [f \in LazFiles |-> "none"]
    /\ PsplitEntry

\* futures = [executor.submit(_process_laz_file, entry) for entry in file_list]
SubmitLazFiles ==
    /\ psplitPc = "start"
    /\ lazPc' = [f \in LazFiles |-> "submitted"]
    /\ psplitPc' = "collecting"
    /\ UNCHANGED <<lazFault, lazLogged, lazUploaded, lazCollected>>
    /\ PsplitFrame

\* _process_laz_file: downloaded_tile = handler.download_file(entry.full_uri)
DownloadLaz(f) ==
    /\ lazPc[f] = "submitted"
    /\ IF lazFault[f] = "download"
       THEN /\ lazPc' = [lazPc EXCEPT ![f] = AfterFailure("download")]
            /\ lazLogged' = IF Caught("download") THEN lazLogged \cup {f} ELSE lazLogged
       ELSE /\ lazPc' = [lazPc EXCEPT ![f] = "downloaded"]
            /\ UNCHANGED lazLogged
    /\ UNCHANGED <<lazFault, lazUploaded, lazCollected, psplitPc>>
    /\ PsplitFrame

\* _process_laz_file: generated_tiles = laz.laz_tile_split(...)
SplitLaz(f) ==
    /\ lazPc[f] = "downloaded"
    /\ IF lazFault[f] = "split"
       THEN /\ lazPc' = [lazPc EXCEPT ![f] = AfterFailure("split")]
            /\ lazLogged' = IF Caught("split") THEN lazLogged \cup {f} ELSE lazLogged
       ELSE /\ lazPc' = [lazPc EXCEPT ![f] = "split"]
            /\ UNCHANGED lazLogged
    /\ UNCHANGED <<lazFault, lazUploaded, lazCollected, psplitPc>>
    /\ PsplitFrame

\* _process_laz_file: the uploads of the tiles, their future.result() and
\* delete_if_not_local; a failing upload is caught and logged inside
\* _upload_and_cleanup, else its exception is raised again by future.result()
UploadLaz(f) ==
    /\ lazPc[f] = "split"
    /\ IF lazFault[f] = "upload"
       THEN /\ lazPc' = [lazPc EXCEPT ![f] = AfterFailure("upload")]
            /\ lazLogged' = IF Caught("upload") THEN lazLogged \cup {f} ELSE lazLogged
            /\ UNCHANGED lazUploaded
       ELSE /\ lazPc' = [lazPc EXCEPT ![f] = "returned"]
            /\ lazUploaded' = lazUploaded \cup {f}
            /\ UNCHANGED lazLogged
    /\ UNCHANGED <<lazFault, lazCollected, psplitPc>>
    /\ PsplitFrame

\* for future in as_completed(futures): future.result(), which raises the
\* exception _process_laz_file ended with
CollectLaz(f) ==
    /\ psplitPc = "collecting"
    /\ f \notin lazCollected
    /\ lazPc[f] \in {"returned", "raised"}
    /\ lazCollected' = lazCollected \cup {f}
    /\ psplitPc' = IF lazPc[f] = "raised" THEN "unwinding" ELSE "collecting"
    /\ UNCHANGED <<lazFault, lazPc, lazLogged, lazUploaded>>
    /\ PsplitFrame

\* every future is finished
LazFilesEnded == \A f \in LazFiles : lazPc[f] \in {"returned", "raised"}

\* the with block of the executor is left: pointcloudsplit returns after the
\* last result, or raises what future.result() raised
EndPointcloudsplit ==
    /\ LazFilesEnded
    /\ \/ psplitPc = "collecting" /\ lazCollected = LazFiles /\ psplitPc' = "finished"
       \/ psplitPc = "unwinding" /\ psplitPc' = "raised"
    /\ UNCHANGED <<lazFault, lazPc, lazLogged, lazUploaded, lazCollected>>
    /\ PsplitFrame

PsplitNext ==
    \/ SubmitLazFiles
    \/ \E f \in LazFiles : DownloadLaz(f)
    \/ \E f \in LazFiles : SplitLaz(f)
    \/ \E f \in LazFiles : UploadLaz(f)
    \/ \E f \in LazFiles : CollectLaz(f)
    \/ EndPointcloudsplit

\* C37: in pointcloudsplit a failure while downloading, splitting or
\* uploading one input file is caught and logged and does not prevent the
\* other files: no input file's function and not pointcloudsplit itself ever
\* raises, a file that failed is logged when its function has returned, and
\* when pointcloudsplit has finished every file without a failure is uploaded.
C37_FailureIsolated ==
    /\ psplitPc \notin {"unwinding", "raised"}
    /\ \A f \in LazFiles :
          /\ lazPc[f] # "raised"
          /\ (lazPc[f] = "returned" /\ lazFault[f] # "none") => f \in lazLogged
    /\ psplitPc = "finished" =>
          \A f \in LazFiles : lazFault[f] = "none" => f \in lazUploaded

\* pointcloudsplit finished with one file that failed and one that did not
C37_Witness ==
    /\ psplitPc = "finished"
    /\ \E f \in LazFiles, g \in LazFiles :
          /\ lazFault[f] \in {"download", "split", "upload"}
          /\ f \in lazLogged
          /\ lazFault[g] = "none"
          /\ g \in lazUploaded

(***************************************************************************)
(* kadaster/bag.py extract_by_year: the reader process and the writer.     *)
(***************************************************************************)
\* BATCH_SIZE, scaled down from 100000
BagBatchSize == 2

\* Queue(BATCH_SIZE * 2)
QueueCapacity == BagBatchSize * 2

\* the None that _bag_filtered_by_year yields last; a feature is its number
NoneItem == 0

BagEntry ==
    /\ feature_queue = <<>>
    /\ bagReaderPc = "unstarted"
    /\ bagReaderPos = 0
    /\ bagPc = "start"
    /\ bagBatch = 0
    /\ bagWritten = 0

\* the features of the year, and the number of features the reader has put
\* when bag_zip_read or a date conversion raises; bagFeatures + 1 is a
\* reader that never raises
BagInit ==
    /\ bagFeatures \in 0..MaxBagFeatures
    /\ bagRaiseAt \in 0..(MaxBagFeatures + 1)
    /\ bagRaiseAt <= bagFeatures + 1
    /\ BagEntry

\* extract_by_year not in use
BagIdle ==
    /\ bagFeatures = 0
    /\ bagRaiseAt = 1
    /\ BagEntry

\* worker_process.start() and fiona.open(target, 'w')
BagStartReader ==
    /\ bagPc = "start"
    /\ bagReaderPc' = "running"
    /\ bagPc' = "loop"
    /\ UNCHANGED <<bagFeatures, bagRaiseAt, feature_queue, bagReaderPos, bagBatch,
                   bagWritten>>
    /\ BagFrame

\* _bag_reader_producer: output_queue.put(feature), which waits while the
\* queue is full
BagReaderPut ==
    /\ bagReaderPc = "running"
    /\ bagReaderPos # bagRaiseAt
    /\ bagReaderPos < bagFeatures
    /\ Len(feature_queue) < QueueCapacity
    /\ feature_queue' = Append(feature_queue, bagReaderPos + 1)
    /\ bagReaderPos' = bagReaderPos + 1
    /\ UNCHANGED <<bagFeatures, bagRaiseAt, bagReaderPc, bagPc, bagBatch, bagWritten>>
    /\ BagFrame

\* the final "yield None" of _bag_filtered_by_year is put, and the process ends
BagReaderPutNone ==
    /\ bagReaderPc = "running"
    /\ bagReaderPos # bagRaiseAt
    /\ bagReaderPos = bagFeatures
    /\ Len(feature_queue) < QueueCapacity
    /\ feature_queue' = Append(feature_queue, NoneItem)
    /\ bagReaderPc' = "exited"
    /\ UNCHANGED <<bagFeatures, bagRaiseAt, bagReaderPos, bagPc, bagBatch, bagWritten>>
    /\ BagFrame

\* an exception leaves _bag_filtered_by_year and _bag_reader_producer: the
\* process ends with an error and has put no None
BagReaderRaise ==
    /\ bagReaderPc = "running"
    /\ bagReaderPos = bagRaiseAt
    /\ bagReaderPc' = "failed"
    /\ UNCHANGED <<bagFeatures, bagRaiseAt, feature_queue, bagReaderPos, bagPc, bagBatch,
                   bagWritten>>
    /\ BagFrame

\* one pass of "while True": feature_queue.get(), which waits while the
\* queue is empty; None ends the loop, a full batch is written
BagConsumerGet ==
    /\ bagPc = "loop"
    /\ feature_queue # <<>>
    /\ feature_queue' = Tail(feature_queue)
    /\ IF Head(feature_queue) = NoneItem
       THEN /\ bagPc' = "flush"
            /\ UNCHANGED <<bagBatch, bagWritten>>
       ELSE /\ UNCHANGED bagPc
            /\ IF (bagBatch + 1) % BagBatchSize = 0
               THEN /\ bagWritten' = bagWritten + bagBatch + 1
                    /\ bagBatch' = 0
               ELSE /\ bagBatch' = bagBatch + 1
                    /\ UNCHANGED bagWritten
    /\ UNCHANGED <<bagFeatures, bagRaiseAt, bagReaderPc, bagReaderPos>>
    /\ BagFrame

\* if len(batch) > 0: gpkg_target.writerecords(batch)
BagConsumerFlush ==
    /\ bagPc = "flush"
    /\ bagWritten' = bagWritten + bagBatch
    /\ bagBatch' = 0
    /\ bagPc' = "join"
    /\ UNCHANGED <<bagFeatures, bagRaiseAt, feature_queue, bagReaderPc, bagReaderPos>>
    /\ BagFrame

\* worker_process.join() returns when the process has ended; the with block
\* closes the target and extract_by_year returns
BagConsumerJoin ==
    /\ bagPc = "join"
    /\ bagReaderPc \in {"exited", "failed"}
    /\ bagPc' = "returned"
    /\ UNCHANGED <<bagFeatures, bagRaiseAt, feature_queue, bagReaderPc, bagReaderPos,
                   bagBatch, bagWritten>>
    /\ BagFrame

\* the steps of the reader process
BagReaderStep == BagReaderPut \/ BagReaderPutNone \/ BagReaderRaise

\* the steps of the process that called extract_by_year
BagConsumerStep == BagStartReader \/ BagConsumerGet \/ BagConsumerFlush \/ BagConsumerJoin

BagNext ==
    \/ BagStartReader
    \/ BagReaderPut
    \/ BagReaderPutNone
    \/ BagReaderRaise
    \/ BagConsumerGet
    \/ BagConsumerFlush
    \/ BagConsumerJoin

\* both processes are scheduled: a step that stays possible is taken
BagFairness == WF_vars(BagReaderStep) /\ WF_vars(BagConsumerStep)

\* C39: extract_by_year always terminates, also when the reader process
\* exits with an error before the stream is exhausted.
C39_ExtractTerminates == <>(bagPc = "returned")

(***************************************************************************)
(* processing/__init__.py: run_with_retries.                               *)
(***************************************************************************)
\* how one subprocess.run of the command ends: it returns, or raises
\* CalledProcessError, TimeoutExpired, or an exception of another class
RunOutcomes == {"ok", "CalledProcessError", "TimeoutExpired", "OSError"}

\* except (subprocess.CalledProcessError, subprocess.TimeoutExpired)
Retried(outcome) == outcome \in {"CalledProcessError", "TimeoutExpired"}

\* a "raise" without expression after the loop: the except block of the
\* last attempt has ended, so the exception being handled is the one of the
\* caller, if the call is made inside an except block, and else there is
\* none and RuntimeError is raised
BareRaise == IF caller_handling THEN "CallerException" ELSE "RuntimeError"

RetryEntry ==
    /\ attempt = 0
    /\ retryPc = "loop"
    /\ raised_exc = "none"

RetryInit ==
    /\ max_attempts \in 0..MaxAttempts
    /\ cmd_outcomes \in [1..MaxAttempts -> RunOutcomes]
    /\ caller_handling \in BOOLEAN
    /\ RetryEntry

\* run_with_retries not in use
RetryIdle ==
    /\ max_attempts = 0
    /\ cmd_outcomes = [k \in 1..MaxAttempts |-> "ok"]
    /\ caller_handling = FALSE
    /\ RetryEntry

\* one pass of "for attempt in range(1, max_attempts + 1)": the result is
\* returned, a retried exception is logged, any other exception leaves
\* run_with_retries
RetryAttempt ==
    /\ retryPc = "loop"
    /\ attempt < max_attempts
    /\ attempt' = attempt + 1
    /\ LET outcome == cmd_outcomes[attempt + 1] IN
       IF outcome = "ok"
       THEN /\ retryPc' = "returned"
            /\ UNCHANGED raised_exc
       ELSE IF Retried(outcome)
            THEN UNCHANGED <<retryPc, raised_exc>>
            ELSE /\ retryPc' = "raised"
                 /\ raised_exc' = outcome
    /\ UNCHANGED <<max_attempts, cmd_outcomes, caller_handling>>
    /\ RetryFrame

\* after the loop: log.error("All %d attempts failed.") and raise
RetryExhausted ==
    /\ retryPc = "loop"
    /\ attempt = max_attempts
    /\ retryPc' = "raised"
    /\ raised_exc' = BareRaise
    /\ UNCHANGED <<max_attempts, cmd_outcomes, caller_handling, attempt>>
    /\ RetryFrame

RetryNext ==
    \/ RetryAttempt
    \/ RetryExhausted

\* every one of the max_attempts attempts fails with an exception that is
\* retried
AllAttemptsFail ==
    /\ max_attempts >= 1
    /\ \A k \in 1..max_attempts : Retried(cmd_outcomes[k])

\* C40: run_with_retries runs the command at most max_attempts times, returns
\* the first success without a further attempt, and, when every attempt fails
\* with CalledProcessError or TimeoutExpired, raises the exception of the
\* last attempt again.
C40_RetriesThenReraise ==
    /\ attempt <= max_attempts
    /\ retryPc = "returned" =>
          /\ cmd_outcomes[attempt] = "ok"
          /\ \A k \in 1..(attempt - 1) : cmd_outcomes[k] # "ok"
    /\ (retryPc = "raised" /\ AllAttemptsFail) =>
          raised_exc = cmd_outcomes[max_attempts]

(***************************************************************************)
(* The grid partitioner and the splitter on one area: the footprints are   *)
(* partitioned, then a point cloud of the same area is split with the same *)
(* cell size.                                                              *)
(***************************************************************************)
\* the lower left corners of the extents of the footprints
Corners == {<<c[1] - features[c], c[2] - features[c]>> : c \in Centroids}

RECURSIVE InOrder(_)
\* the points of a set as a sequence, by x and then by y
InOrder(S) ==
    IF S = {} THEN <<>>
    ELSE LET first == CHOOSE c \in S :
                         \A e \in S : c[1] < e[1] \/ (c[1] = e[1] /\ c[2] <= e[2])
         IN <<first>> \o InOrder(S \ {first})

\* a readable footprint file, and a point cloud with one point on the lower
\* left corner of every footprint
LatticeInit ==
    /\ features \in FootprintFiles
    /\ grid_size \in 1..MaxGridSize
    /\ source_readable = TRUE
    /\ cell_raises = FALSE
    /\ GridEntry
    /\ points = InOrder(Corners)
    /\ split_grid_size = grid_size
    /\ SplitEntry

\* the split starts when the manifest of the grid is written
LatticeNext ==
    \/ GridNext
    \/ queue_json.written /\ SplitNext

InitLattice ==
    /\ LatticeInit
    /\ HeightIdle /\ UploadIdle /\ RegistryIdle /\ ManifestIdle /\ NavigateIdle /\
       StorageIdle /\ TileIdle /\ PsplitIdle /\ BagIdle /\ RetryIdle
SpecLattice == InitLattice /\ [][LatticeNext]_vars

\* v is an integer multiple of the cell size
OnLattice(v, size) == v % size = 0

\* the candidate cell at the origin of the grid and the one at its far
\* corner: the first and the last of the task list
OriginCell == AlignedTasks[1]
FarCell == AlignedTasks[Len(AlignedTasks)]

\* C38: grid alignment: when the candidate cells have been evaluated, the
\* origin of the grid is the floor, and its far corner the ceiling, of the
\* bounds to a multiple of the cell size; every emitted cell has its corners
\* at integer multiples of the cell size and sides of exactly the cell size;
\* the origins of the splitter's tiles are on the same lattice.
C38_GridAlignment ==
    /\ (gridPc = "yield" /\ gridPos = 0 /\ AlignedTasks # <<>>) =>
          LET origin == OriginCell
              far == FarCell
          IN /\ OnLattice(origin[1], grid_size)
             /\ OnLattice(origin[2], grid_size)
             /\ origin[1] <= Bounds[1] /\ Bounds[1] < origin[1] + grid_size
             /\ origin[2] <= Bounds[2] /\ Bounds[2] < origin[2] + grid_size
             /\ far[1] < Bounds[3] /\ Bounds[3] <= far[1] + grid_size
             /\ far[2] < Bounds[4] /\ Bounds[4] <= far[2] + grid_size
    /\ \A i \in 1..Len(yielded) :
          /\ \A k \in 1..4 : OnLattice(yielded[i][k], grid_size)
          /\ yielded[i][3] - yielded[i][1] = grid_size
          /\ yielded[i][4] - yielded[i][2] = grid_size
    /\ \A name \in DOMAIN tile_files :
          /\ OnLattice(name[1], grid_size)
          /\ OnLattice(name[2], grid_size)

\* a grid with a negative origin emitted a cell, and the splitter wrote a
\* tile with a negative origin and a second tile
C38_Witness ==
    /\ Len(yielded) >= 1
    /\ grid_size = 2
    /\ OriginCell[1] < 0
    /\ \E name \in DOMAIN tile_files : name[1] < 0
    /\ Cardinality(DOMAIN tile_files) = 2
    /\ splitPc = "returned"

(***************************************************************************)
(* The specifications: one per part of the program, the other parts idle.  *)
(***************************************************************************)
InitHeight ==
    /\ HeightInit
    /\ UploadIdle /\ RegistryIdle /\ GridIdle /\ SplitIdle /\ ManifestIdle /\
       NavigateIdle /\ StorageIdle /\ TileIdle /\ PsplitIdle /\ BagIdle /\
       RetryIdle
SpecHeight == InitHeight /\ [][HeightNext]_vars

InitUpload ==
    /\ UploadInit
    /\ HeightIdle /\ RegistryIdle /\ GridIdle /\ SplitIdle /\ ManifestIdle /\
       NavigateIdle /\ StorageIdle /\ TileIdle /\ PsplitIdle /\ BagIdle /\
       RetryIdle
SpecUpload == InitUpload /\ [][UploadNext]_vars

InitRegistry ==
    /\ RegistryInit
    /\ HeightIdle /\ UploadIdle /\ GridIdle /\ SplitIdle /\ ManifestIdle /\
       NavigateIdle /\ StorageIdle /\ TileIdle /\ PsplitIdle /\ BagIdle /\
       RetryIdle
SpecRegistry == InitRegistry /\ [][RegistryNext]_vars

InitGrid ==
    /\ GridInit
    /\ HeightIdle /\ UploadIdle /\ RegistryIdle /\ SplitIdle /\
       ManifestIdle /\ NavigateIdle /\ StorageIdle /\ TileIdle /\
       PsplitIdle /\ BagIdle /\ RetryIdle
SpecGrid == InitGrid /\ [][GridNext]_vars

InitSplit ==
    /\ SplitInit
    /\ HeightIdle /\ UploadIdle /\ RegistryIdle /\ GridIdle /\
       ManifestIdle /\ NavigateIdle /\ StorageIdle /\ TileIdle /\
       PsplitIdle /\ BagIdle /\ RetryIdle
SpecSplit == InitSplit /\ [][SplitNext]_vars

InitManifest ==
    /\ ManifestInit
    /\ HeightIdle /\ UploadIdle /\ RegistryIdle /\ GridIdle /\ SplitIdle /\
       NavigateIdle /\ StorageIdle /\ TileIdle /\ PsplitIdle /\ BagIdle /\
       RetryIdle
SpecManifest == InitManifest /\ [][ManifestNext]_vars

InitNavigate ==
    /\ NavigateInit
    /\ HeightIdle /\ UploadIdle /\ RegistryIdle /\ GridIdle /\ SplitIdle /\
       ManifestIdle /\ StorageIdle /\ TileIdle /\ PsplitIdle /\ BagIdle /\
       RetryIdle
SpecNavigate == InitNavigate /\ [][NavigateNext]_vars

InitStorage ==
    /\ StorageInit
    /\ HeightIdle /\ UploadIdle /\ RegistryIdle /\ GridIdle /\ SplitIdle /\
       ManifestIdle /\ NavigateIdle /\ TileIdle /\ PsplitIdle /\ BagIdle /\
       RetryIdle
SpecStorage == InitStorage /\ [][StorageNext]_vars

InitTile ==
    /\ TileInit
    /\ HeightIdle /\ UploadIdle /\ RegistryIdle /\ GridIdle /\ SplitIdle /\
       ManifestIdle /\ NavigateIdle /\ StorageIdle /\ PsplitIdle /\
       BagIdle /\ RetryIdle
SpecTile == InitTile /\ [][TileNext]_vars

InitPsplit ==
    /\ PsplitInit
    /\ HeightIdle /\ UploadIdle /\ RegistryIdle /\ GridIdle /\ SplitIdle /\
       ManifestIdle /\ NavigateIdle /\ StorageIdle /\ TileIdle /\ BagIdle /\
       RetryIdle
SpecPsplit == InitPsplit /\ [][PsplitNext]_vars

InitBag ==
    /\ BagInit
    /\ HeightIdle /\ UploadIdle /\ RegistryIdle /\ GridIdle /\ SplitIdle /\
       ManifestIdle /\ NavigateIdle /\ StorageIdle /\ TileIdle /\
       PsplitIdle /\ RetryIdle
SpecBag == InitBag /\ [][BagNext]_vars

\* SpecBag under the scheduling of its processes
SpecBagFair == SpecBag /\ BagFairness

InitRetry ==
    /\ RetryInit
    /\ HeightIdle /\ UploadIdle /\ RegistryIdle /\ GridIdle /\ SplitIdle /\
       ManifestIdle /\ NavigateIdle /\ StorageIdle /\ TileIdle /\
       PsplitIdle /\ BagIdle
SpecRetry == InitRetry /\ [][RetryNext]_vars

=============================================================================
